---------------------------- MODULE Spec2Model ----------------------------
(***************************************************************************)
(* A model of the playback-and-library core of impulse: the playlist       *)
(* manager, the metadata load queue, the mpv IPC transport and the         *)
(* application controller that sequences them.                             *)
(*                                                                         *)
(* Indices are 0-based wherever the source computes with them (clampIndex, *)
(* splice, findIndex) and converted to TLA+'s 1-based sequences at the     *)
(* point of access.                                                        *)
(***************************************************************************)
EXTENDS Integers, Sequences, FiniteSets, TLC

(***************************************************************************)
(* Bounds of the model.                                                    *)
(***************************************************************************)
\* Track ids ever handed out by randomUUID() in one behaviour.
MaxIds == 3
\* Distinct file paths.
MaxPaths == 2

\* Tracks of the playlist whose metadata loads are followed to their end; one
\* more than the controller's load concurrency, so that a load can wait.
MaxLoadIds == 5

\* JavaScript's null.  Track ids, paths and track numbers are >= 1.
Null == 0

Paths == 1..MaxPaths
TrackIds == 1..MaxIds

Min(a, b) == IF a < b THEN a ELSE b
Max(a, b) == IF a > b THEN a ELSE b

LoadIds == 1..MaxLoadIds
\* Every id a track can have in any of the specifications.
AllTrackIds == 1..Max(MaxIds, MaxLoadIds + 1)

Range(s) == {s[i] : i \in 1..Len(s)}

\* All sequences without repetition over exactly the elements of S.
Perms(S) ==
  {s \in [1..Cardinality(S) -> S] : \A i, j \in 1..Cardinality(S) : s[i] = s[j] => i = j}

(***************************************************************************)
(* PlaylistManager                                                         *)
(***************************************************************************)

\* Placeholder metadata of a new item: no track number, title = file name.
emptyMetadata(filePath) == [trackNumber |-> Null, title |-> filePath]

\* Metadata an extraction can yield (track number, title rank).
MetadataValues == {[trackNumber |-> n, title |-> t] : n \in {Null, 1}, t \in 1..MaxPaths}

compareNullableNumber(a, b) ==
  IF a = Null /\ b = Null THEN 0
  ELSE IF a = Null THEN 1
  ELSE IF b = Null THEN -1
  ELSE a - b

clampIndex(index, max) == Min(Max(index, 0), max)

clamp(value, min, max) == Min(max, Max(min, value))

\* String.prototype.localeCompare on the model's ranked strings.
localeCompare(a, b) == IF a < b THEN -1 ELSE IF a > b THEN 1 ELSE 0

ItemIds(its) == {its[i].id : i \in 1..Len(its)}
IdSeq(its) == [i \in 1..Len(its) |-> its[i].id]

\* Array.prototype.findIndex by id, 0-based, -1 when absent.
FindIndex(its, trackId) ==
  IF trackId \in ItemIds(its)
  THEN (CHOOSE i \in 1..Len(its) :
          its[i].id = trackId /\ \A j \in 1..(i - 1) : its[j].id # trackId) - 1
  ELSE -1

getItemById(pl, trackId) ==
  IF trackId \in ItemIds(pl.items) THEN pl.items[FindIndex(pl.items, trackId) + 1] ELSE Null

SortColumns == {"track", "title"}

NewPlaylist ==
  [items |-> <<>>,
   selectedTrackId |-> Null,
   selectedTrackIds |-> <<>>,
   currentTrackId |-> Null,
   sortColumn |-> "none",
   sortDirection |-> "asc",
   repeatMode |-> "off",
   shuffleEnabled |-> FALSE,
   shuffleOrder |-> <<>>]

clearSortState(pl) == [pl EXCEPT !.sortColumn = "none", !.sortDirection = "asc"]

\* The shuffle orders refreshShuffleOrder can leave: shuffleInPlace may yield
\* any permutation of what it is given.
ShuffleOrders(pl) ==
  IF ~pl.shuffleEnabled THEN {<<>>}
  ELSE LET ids == ItemIds(pl.items)
           currentId == pl.currentTrackId
       IN IF currentId # Null /\ currentId \in ids
          THEN {<<currentId>> \o others : others \in Perms(ids \ {currentId})}
          ELSE Perms(ids)

\* Every operation below yields the SET of playlists it can leave (one
\* element unless shuffle is on).
refreshShuffleOrder(pl) == {[pl EXCEPT !.shuffleOrder = so] : so \in ShuffleOrders(pl)}

\* The items addPaths creates: fresh ids firstId, firstId + 1, ...
InsertedItems(paths, firstId) ==
  [i \in 1..Len(paths) |->
     [id |-> firstId + i - 1, path |-> paths[i], metadata |-> emptyMetadata(paths[i])]]

\* index = Null - 1 stands for "no index argument" (undefined).
NoIndex == Null - 1

addPaths(pl, paths, index, firstId) ==
  IF Len(paths) = 0 THEN {pl}
  ELSE
    LET inserted == InsertedItems(paths, firstId)
        n == Len(pl.items)
        insertAt == clampIndex(IF index = NoIndex THEN n ELSE index, n)
        spliced == SubSeq(pl.items, 1, insertAt) \o inserted \o SubSeq(pl.items, insertAt + 1, n)
        p1 == clearSortState([pl EXCEPT !.items = spliced])
        p2 == IF Len(p1.selectedTrackIds) = 0
              THEN [p1 EXCEPT !.selectedTrackId = inserted[1].id,
                              !.selectedTrackIds = <<inserted[1].id>>]
              ELSE p1
    IN refreshShuffleOrder(p2)

replaceWithPaths(pl, paths, firstId) ==
  LET p0 == [clearSortState(pl) EXCEPT !.items = <<>>,
                                       !.selectedTrackId = Null,
                                       !.selectedTrackIds = <<>>,
                                       !.currentTrackId = Null,
                                       !.shuffleOrder = <<>>]
  IN IF Len(paths) = 0 THEN addPaths(p0, paths, NoIndex, firstId)
     ELSE {[p EXCEPT !.selectedTrackId = firstId, !.selectedTrackIds = <<firstId>>] :
             p \in addPaths(p0, paths, NoIndex, firstId)}

clear(pl) ==
  clearSortState([pl EXCEPT !.items = <<>>,
                            !.selectedTrackId = Null,
                            !.selectedTrackIds = <<>>,
                            !.currentTrackId = Null,
                            !.shuffleOrder = <<>>])

\* The current-track pointer removeTracks leaves, given the items that remain.
RemoveCurrentAs_Keep(pl, toRemove, remaining) == pl.currentTrackId

RemoveCurrent(pl, toRemove, remaining) ==
  LET previousCurrentId == pl.currentTrackId
      previousCurrentIndex == IF previousCurrentId # Null
                              THEN FindIndex(pl.items, previousCurrentId) ELSE -1
      removedCurrent == previousCurrentId # Null /\ previousCurrentId \in toRemove
  IN IF removedCurrent
     THEN IF Len(remaining) = 0 THEN Null
          ELSE remaining[clampIndex(previousCurrentIndex, Len(remaining) - 1) + 1].id
     ELSE IF previousCurrentId # Null /\ previousCurrentId \notin ItemIds(remaining)
          THEN Null
          ELSE previousCurrentId

\* removedCount of removeTracks' result.
RemovedCount(pl, toRemove) ==
  Cardinality({i \in 1..Len(pl.items) : pl.items[i].id \in toRemove})

\* removedCurrent of removeTracks' result.
RemovedCurrent(pl, toRemove) ==
  /\ RemovedCount(pl, toRemove) > 0
  /\ pl.currentTrackId # Null
  /\ pl.currentTrackId \in toRemove

removeTracks(pl, toRemove) ==
  IF toRemove = {} \/ Len(pl.items) = 0 \/ RemovedCount(pl, toRemove) = 0 THEN {pl}
  ELSE
    LET Stays(item) == item.id \notin toRemove
        remaining == SelectSeq(pl.items, Stays)
        firstRemovedIndex ==
          (CHOOSE i \in 1..Len(pl.items) :
             pl.items[i].id \in toRemove /\ \A j \in 1..(i - 1) : pl.items[j].id \notin toRemove) - 1
        p1 == clearSortState([pl EXCEPT !.items = remaining,
                                        !.currentTrackId = RemoveCurrent(pl, toRemove, remaining)])
        activeIds == ItemIds(remaining)
        Survives(id) == id \in activeIds
        survivingSelected == SelectSeq(pl.selectedTrackIds, Survives)
        fallback ==
          IF firstRemovedIndex + 1 <= Len(remaining) THEN remaining[firstRemovedIndex + 1].id
          ELSE IF firstRemovedIndex >= 1 /\ firstRemovedIndex <= Len(remaining)
               THEN remaining[firstRemovedIndex].id
          ELSE IF Len(remaining) > 0 THEN remaining[1].id
          ELSE Null
        p2 == IF Len(survivingSelected) > 0
              THEN [p1 EXCEPT !.selectedTrackIds = survivingSelected,
                              !.selectedTrackId =
                                IF pl.selectedTrackId # Null /\ pl.selectedTrackId \in activeIds
                                THEN pl.selectedTrackId ELSE survivingSelected[1]]
              ELSE [p1 EXCEPT !.selectedTrackId = fallback,
                              !.selectedTrackIds = IF fallback # Null THEN <<fallback>> ELSE <<>>]
    IN refreshShuffleOrder(p2)

\* moveTracks' order without the count of the moved items before the target.
ReorderedAs_RawTarget(its, requested, index) ==
  LET Moves(item) == item.id \in requested
      Stays(item) == item.id \notin requested
      moving == SelectSeq(its, Moves)
      rawTarget == clampIndex(index, Len(its))
      remaining == SelectSeq(its, Stays)
      targetInRemaining == clampIndex(rawTarget, Len(remaining))
  IN SubSeq(remaining, 1, targetInRemaining) \o moving
       \o SubSeq(remaining, targetInRemaining + 1, Len(remaining))

\* The order moveTracks computes.
Reordered(its, requested, index) ==
  LET Moves(item) == item.id \in requested
      Stays(item) == item.id \notin requested
      moving == SelectSeq(its, Moves)
      rawTarget == clampIndex(index, Len(its))
      removedBeforeTarget ==
        Cardinality({i \in 1..Len(its) : (i - 1) < rawTarget /\ its[i].id \in requested})
      remaining == SelectSeq(its, Stays)
      targetInRemaining == clampIndex(rawTarget - removedBeforeTarget, Len(remaining))
  IN SubSeq(remaining, 1, targetInRemaining) \o moving
       \o SubSeq(remaining, targetInRemaining + 1, Len(remaining))

\* moveTracks' return value.
MoveChanges(pl, requested, index) ==
  /\ Len(pl.items) > 1
  /\ requested # {}
  /\ ItemIds(pl.items) \cap requested # {}
  /\ ~(ItemIds(pl.items) \subseteq requested)
  /\ Reordered(pl.items, requested, index) # pl.items

moveTracks(pl, requested, index) ==
  IF ~MoveChanges(pl, requested, index) THEN {pl}
  ELSE
    LET reordered == Reordered(pl.items, requested, index)
        selectedSet == Range(pl.selectedTrackIds)
        Selected(id) == id \in selectedSet
        resynced == SelectSeq(IdSeq(reordered), Selected)
        p1 == clearSortState([pl EXCEPT !.items = reordered])
        p2 == [p1 EXCEPT !.selectedTrackIds = resynced,
                         !.selectedTrackId =
                           IF pl.selectedTrackId # Null /\ pl.selectedTrackId \in selectedSet
                           THEN pl.selectedTrackId
                           ELSE IF Len(resynced) > 0 THEN resynced[1] ELSE Null]
    IN refreshShuffleOrder(p2)

updateMetadata(pl, trackId, metadata) ==
  IF trackId \notin ItemIds(pl.items) THEN pl
  ELSE [pl EXCEPT !.items[FindIndex(pl.items, trackId) + 1].metadata = metadata]

\* setSelectedTrack without its look-up of the item.
setSelectedTrackAs_Unchecked(pl, trackId) ==
  IF trackId = Null THEN [pl EXCEPT !.selectedTrackId = Null, !.selectedTrackIds = <<>>]
  ELSE [pl EXCEPT !.selectedTrackId = trackId, !.selectedTrackIds = <<trackId>>]

setSelectedTrack(pl, trackId) ==
  IF trackId = Null THEN [pl EXCEPT !.selectedTrackId = Null, !.selectedTrackIds = <<>>]
  ELSE IF trackId \in ItemIds(pl.items)
       THEN [pl EXCEPT !.selectedTrackId = trackId, !.selectedTrackIds = <<trackId>>]
       ELSE pl

setSelectedTracks(pl, requested, primaryTrackId) ==
  LET Wanted(id) == id \in requested
      normalized == SelectSeq(IdSeq(pl.items), Wanted)
  IN IF requested = {} \/ Len(normalized) = 0
     THEN [pl EXCEPT !.selectedTrackId = Null, !.selectedTrackIds = <<>>]
     ELSE [pl EXCEPT !.selectedTrackIds = normalized,
                     !.selectedTrackId =
                       IF primaryTrackId # Null /\ primaryTrackId \in Range(normalized)
                       THEN primaryTrackId ELSE normalized[1]]

\* setCurrentTrack without its refreshShuffleOrder.
setCurrentTrackAs_NoRefresh(pl, trackId) == {[pl EXCEPT !.currentTrackId = trackId]}

setCurrentTrack(pl, trackId) == refreshShuffleOrder([pl EXCEPT !.currentTrackId = trackId])

setRepeatMode(pl, mode) == [pl EXCEPT !.repeatMode = mode]

cycleRepeatMode(pl) ==
  [pl EXCEPT !.repeatMode = IF pl.repeatMode = "off" THEN "all"
                            ELSE IF pl.repeatMode = "all" THEN "one" ELSE "off"]

setShuffleEnabled(pl, enabled) == refreshShuffleOrder([pl EXCEPT !.shuffleEnabled = enabled])

\* toggleShuffle without its refreshShuffleOrder.
toggleShuffleAs_NoRefresh(pl) == {[pl EXCEPT !.shuffleEnabled = ~pl.shuffleEnabled]}

toggleShuffle(pl) == refreshShuffleOrder([pl EXCEPT !.shuffleEnabled = ~pl.shuffleEnabled])

\* The comparator of sortBy, before the direction is applied.
CompareItems(column, a, b) ==
  LET result == IF column = "track"
                THEN compareNullableNumber(a.metadata.trackNumber, b.metadata.trackNumber)
                ELSE IF column = "title"
                THEN localeCompare(a.metadata.title, b.metadata.title)
                ELSE 0
  IN IF result = 0 THEN localeCompare(a.path, b.path) ELSE result

\* Array.prototype.sort is stable: insert each element after the last one that
\* does not compare greater.
RECURSIVE InsertSorted(_, _, _, _)
InsertSorted(sorted, x, column, direction) ==
  IF sorted = <<>> THEN <<x>>
  ELSE IF CompareItems(column, Head(sorted), x) * direction <= 0
       THEN <<Head(sorted)>> \o InsertSorted(Tail(sorted), x, column, direction)
       ELSE <<x>> \o sorted

RECURSIVE StableSort(_, _, _)
StableSort(its, column, direction) ==
  IF its = <<>> THEN <<>>
  ELSE InsertSorted(StableSort(SubSeq(its, 1, Len(its) - 1), column, direction),
                    its[Len(its)], column, direction)

sortBy(pl, column) ==
  LET dir == IF pl.sortColumn = column
             THEN (IF pl.sortDirection = "asc" THEN "desc" ELSE "asc")
             ELSE "asc"
      sorted == StableSort(pl.items, column, IF dir = "asc" THEN 1 ELSE -1)
      selectedSet == Range(pl.selectedTrackIds)
      Selected(id) == id \in selectedSet
      p1 == [pl EXCEPT !.sortColumn = column, !.sortDirection = dir, !.items = sorted]
      p2 == IF Len(pl.selectedTrackIds) > 0
            THEN [p1 EXCEPT !.selectedTrackIds = SelectSeq(IdSeq(sorted), Selected)]
            ELSE p1
  IN refreshShuffleOrder(p2)

\* getPlaybackOrder: the orders it can return (it refreshes a shuffle order of
\* the wrong length first).
PlaybackOrders(pl) ==
  IF pl.shuffleEnabled
  THEN IF Len(pl.shuffleOrder) # Len(pl.items) THEN ShuffleOrders(pl) ELSE {pl.shuffleOrder}
  ELSE {IdSeq(pl.items)}

\* indexOf on an order, 0-based, -1 when absent.
IndexOf(order, trackId) ==
  IF trackId \in Range(order)
  THEN (CHOOSE i \in 1..Len(order) :
          order[i] = trackId /\ \A j \in 1..(i - 1) : order[j] # trackId) - 1
  ELSE -1

\* getNextTrackId with the end-of-order wrap of repeat "all" left out.
NextInOrderAs_NoWrap(pl, order) ==
  IF Len(pl.items) = 0 THEN Null
  ELSE IF pl.repeatMode = "one" /\ pl.currentTrackId # Null THEN pl.currentTrackId
  ELSE IF Len(order) = 0 THEN Null
  ELSE IF pl.currentTrackId = Null THEN order[1]
  ELSE LET currentIndex == IndexOf(order, pl.currentTrackId)
           nextIndex == currentIndex + 1
       IN IF currentIndex = -1 THEN order[1]
          ELSE IF nextIndex < Len(order) THEN order[nextIndex + 1]
          ELSE Null

\* getPreviousTrackId with the repeat "one" test left out.
PreviousInOrderAs_NoRepeatOne(pl, order) ==
  IF Len(pl.items) = 0 THEN Null
  ELSE IF Len(order) = 0 THEN Null
  ELSE IF pl.currentTrackId = Null THEN order[1]
  ELSE LET currentIndex == IndexOf(order, pl.currentTrackId)
           previousIndex == currentIndex - 1
       IN IF currentIndex = -1 THEN order[1]
          ELSE IF previousIndex >= 0 THEN order[previousIndex + 1]
          ELSE IF pl.repeatMode = "all" THEN order[Len(order)]
          ELSE Null

NextInOrder(pl, order) ==
  IF Len(pl.items) = 0 THEN Null
  ELSE IF pl.repeatMode = "one" /\ pl.currentTrackId # Null THEN pl.currentTrackId
  ELSE IF Len(order) = 0 THEN Null
  ELSE IF pl.currentTrackId = Null THEN order[1]
  ELSE LET currentIndex == IndexOf(order, pl.currentTrackId)
           nextIndex == currentIndex + 1
       IN IF currentIndex = -1 THEN order[1]
          ELSE IF nextIndex < Len(order) THEN order[nextIndex + 1]
          ELSE IF pl.repeatMode = "all" THEN order[1]
          ELSE Null

PreviousInOrder(pl, order) ==
  IF Len(pl.items) = 0 THEN Null
  ELSE IF pl.repeatMode = "one" /\ pl.currentTrackId # Null THEN pl.currentTrackId
  ELSE IF Len(order) = 0 THEN Null
  ELSE IF pl.currentTrackId = Null THEN order[1]
  ELSE LET currentIndex == IndexOf(order, pl.currentTrackId)
           previousIndex == currentIndex - 1
       IN IF currentIndex = -1 THEN order[1]
          ELSE IF previousIndex >= 0 THEN order[previousIndex + 1]
          ELSE IF pl.repeatMode = "all" THEN order[Len(order)]
          ELSE Null

\* The ids getNextTrackId / getPreviousTrackId can return.
getNextTrackId(pl) == {NextInOrder(pl, order) : order \in PlaybackOrders(pl)}
getPreviousTrackId(pl) == {PreviousInOrder(pl, order) : order \in PlaybackOrders(pl)}

\* getPlaybackOrder: each order it can return with the playlist it leaves.
getPlaybackOrder(pl) ==
  IF pl.shuffleEnabled /\ Len(pl.shuffleOrder) # Len(pl.items)
  THEN {[order |-> p.shuffleOrder, pm |-> p] : p \in refreshShuffleOrder(pl)}
  ELSE {[order |-> o, pm |-> pl] : o \in PlaybackOrders(pl)}

\* A call of getNextTrackId / getPreviousTrackId: the id returned and the
\* playlist left.  The order is fetched only past the two early returns.
EarlyReturn(pl) ==
  Len(pl.items) = 0 \/ (pl.repeatMode = "one" /\ pl.currentTrackId # Null)

NextTrackCalls(pl) ==
  IF EarlyReturn(pl) THEN {[id |-> NextInOrder(pl, <<>>), pm |-> pl]}
  ELSE {[id |-> NextInOrder(pl, o.order), pm |-> o.pm] : o \in getPlaybackOrder(pl)}

PreviousTrackCalls(pl) ==
  IF EarlyReturn(pl) THEN {[id |-> PreviousInOrder(pl, <<>>), pm |-> pl]}
  ELSE {[id |-> PreviousInOrder(pl, o.order), pm |-> o.pm] : o \in getPlaybackOrder(pl)}


(***************************************************************************)
(* MetadataLoadQueue                                                       *)
(*                                                                         *)
(* A task object is named by its serial number; the lanes hold these       *)
(* numbers.  tasks[t] records, for task t, its trackId, how often runTask  *)
(* was invoked for it, and where it is:                                    *)
(*   "queued"    in a lane                                                 *)
(*   "running"   runTask(task) invoked, its promise not yet settled        *)
(*   "resolved"  task.resolve() called; the .finally() callback that       *)
(*               deletes the inFlightByTrack entry is a pending microtask  *)
(*   "settled"   that callback ran: the promise enqueue returned resolved  *)
(***************************************************************************)
\* The constructor's normalisation of options.concurrency.
Concurrency(optionsConcurrency) == Max(1, optionsConcurrency)

NewMetadataLoadQueue(optionsConcurrency) ==
  [highQueue |-> <<>>,
   normalQueue |-> <<>>,
   inFlightByTrack |-> [t \in AllTrackIds |-> Null],
   concurrency |-> Concurrency(optionsConcurrency),
   workerCount |-> 0,
   shuttingDown |-> FALSE]

\* shiftNextTask: the task it returns (Null when both lanes are empty).
shiftNextTaskAs_NormalFirst(q) ==
  IF Len(q.normalQueue) > 0 THEN Head(q.normalQueue)
  ELSE IF Len(q.highQueue) > 0 THEN Head(q.highQueue)
  ELSE Null

shiftNextTask(q) ==
  IF Len(q.highQueue) > 0 THEN Head(q.highQueue)
  ELSE IF Len(q.normalQueue) > 0 THEN Head(q.normalQueue)
  ELSE Null

\* The lanes after shiftNextTask removed task t from the head of its lane.
Shifted(q, t) ==
  IF Len(q.highQueue) > 0 /\ Head(q.highQueue) = t
  THEN [q EXCEPT !.highQueue = Tail(q.highQueue)]
  ELSE [q EXCEPT !.normalQueue = Tail(q.normalQueue)]

\* drain: start tasks while a worker is free.  A pair <<queue, tasks>>.
DrainGuardAs_NoLimit(q) == ~q.shuttingDown

DrainGuardAs_IgnoreShutdown(q) == q.workerCount < q.concurrency

DrainGuard(q) == ~q.shuttingDown /\ q.workerCount < q.concurrency

RECURSIVE drain(_, _)
drain(q, tasks) ==
  IF DrainGuard(q) /\ shiftNextTask(q) # Null
  THEN LET t == shiftNextTask(q)
       IN drain([Shifted(q, t) EXCEPT !.workerCount = q.workerCount + 1],
                [tasks EXCEPT ![t].where = "running", ![t].runs = tasks[t].runs + 1])
  ELSE <<q, tasks>>

\* promote: move the track's task from the normal lane to the end of the high lane.
promoteAs_Copy(q, tasks, trackId) ==
  LET IsTrack(t) == tasks[t].trackId = trackId
      found == SelectSeq(q.normalQueue, IsTrack)
  IN IF Len(found) = 0 THEN q
     ELSE [q EXCEPT !.highQueue = Append(q.highQueue, found[1])]

promote(q, tasks, trackId) ==
  LET IsTrack(t) == tasks[t].trackId = trackId
      NotTrack(t) == tasks[t].trackId # trackId
      found == SelectSeq(q.normalQueue, IsTrack)
  IN IF Len(found) = 0 THEN q
     ELSE [q EXCEPT !.normalQueue = SelectSeq(q.normalQueue, NotTrack),
                    !.highQueue = Append(q.highQueue, found[1])]

\* The entry enqueue finds in inFlightByTrack.
ExistingAs_NoDedup(q, trackId) == Null

Existing(q, trackId) == q.inFlightByTrack[trackId]

\* What the promise enqueue returned gets when runTask(task) has settled:
\* drain swallows a rejection and resolves the task either way.
TaskCompletionAs_Propagate(outcome) == IF outcome = "rejected" THEN "rejected" ELSE "resolved"

TaskCompletion(outcome) == "resolved"

\* What shutdown leaves in the lanes.
ShutdownLanesAs_Keep(q) == q

ShutdownLanes(q) == [q EXCEPT !.highQueue = <<>>, !.normalQueue = <<>>]

(***************************************************************************)
(* MpvIpcBackend (the engine transport)                                    *)
(*                                                                         *)
(* commands[k] is the k-th sendCommand invocation: the request id it was   *)
(* given, where it is ("writing": payload handed to socket.write, its      *)
(* callback not yet run; "pending": handlers registered in the pending     *)
(* map, timer armed; "resolved" / "rejected": its promise settled), the    *)
(* value or error it settled with, the response line whose handling       *)
(* settled it, whether its timeout timer is armed, how many times its      *)
(* resolve or reject was called, and whether the socket it was written to  *)
(* has been destroyed before the write callback ran.                       *)
(*                                                                         *)
(* Next to the fields of the class the backend record keeps what the       *)
(* process and socket objects still owe: processes is the number of        *)
(* spawned processes whose exit event has not fired, socketOpen says that  *)
(* the socket held in the socket field is neither closed nor destroyed,    *)
(* destroyedSockets is the number of destroyed sockets whose close event   *)
(* has not fired; starts counts the start() calls, and stopPc / quit are   *)
(* the position of the stop() in progress and the quit command it sent.    *)
(***************************************************************************)
NewBackend ==
  [mpvProcess |-> FALSE,
   socket |-> FALSE,
   connected |-> FALSE,
   nextRequestId |-> 1,
   pending |-> {},
   shuttingDown |-> FALSE,
   processes |-> 0,
   socketOpen |-> FALSE,
   destroyedSockets |-> 0,
   starts |-> 0,
   stopPc |-> "idle",
   quit |-> Null]

\* The response lines the engine can send for request id r.
ResponseErrors == {"none", "success", "failed"}
ResponseData == {"a", "b"}
Responses(ids) ==
  {[request_id |-> r, error |-> e, data |-> d] : r \in ids, e \in ResponseErrors, d \in ResponseData}

\* What stands for "no response" and for pending.get() finding nothing.
NoResponse == [request_id |-> Null, error |-> "none", data |-> "none"]
NoHandlers == [requestId |-> Null, command |-> Null]

\* pending.get(request_id): the entry (request id and command), if any.
PendingGetAs_Oldest(pending, request_id) ==
  IF pending = {} THEN NoHandlers
  ELSE CHOOSE h \in pending : \A g \in pending : h.requestId <= g.requestId

PendingGet(pending, request_id) ==
  IF \E h \in pending : h.requestId = request_id
  THEN CHOOSE h \in pending : h.requestId = request_id
  ELSE NoHandlers

\* The request id sendCommand takes and the counter it leaves.
NextRequestIdAs_Reuse(b) == IF b.pending = {} THEN 1 ELSE b.nextRequestId + 1

NextRequestId(b) == b.nextRequestId + 1

\* How handleMessage settles the command a response belongs to.
SettleByResponse(cmd, response) ==
  IF response.error # "none" /\ response.error # "success"
  THEN [cmd EXCEPT !.phase = "rejected", !.result = response.error, !.settledBy = response,
                   !.timer = FALSE, !.settles = @ + 1]
  ELSE [cmd EXCEPT !.phase = "resolved", !.result = response.data, !.settledBy = response,
                   !.timer = FALSE, !.settles = @ + 1]

\* The pending map after the timeout callback deleted its entry.
TimeoutDeleteAs_Keep(pending, handlers) == pending

TimeoutDelete(pending, handlers) == pending \ {handlers}

\* The connection check of sendCommand.
IsConnectedAs_SocketOnly(b) == b.socket

IsConnected(b) == b.connected /\ b.socket

\* stop() without its rejectAllPending.
StopRestAs_NoReject(b, cmds) ==
  [backend |-> [b EXCEPT !.socket = FALSE,
                         !.socketOpen = FALSE,
                         !.destroyedSockets = IF b.socketOpen THEN @ + 1 ELSE @,
                         !.connected = FALSE,
                         !.mpvProcess = FALSE,
                         !.stopPc = "unlink",
                         !.quit = Null],
   commands |-> [k \in 1..Len(cmds) |->
                   IF b.socket /\ cmds[k].phase = "writing"
                   THEN [cmds[k] EXCEPT !.destroyed = TRUE]
                   ELSE cmds[k]]]

\* A sendCommand invocation that threw at its connection check.
NotConnected ==
  [requestId |-> Null, phase |-> "rejected", result |-> "not connected",
   settledBy |-> NoResponse, timer |-> FALSE, settles |-> 1, destroyed |-> FALSE]

\* A sendCommand invocation that took request id r and handed its payload to
\* socket.write.
Writing(r) ==
  [requestId |-> r, phase |-> "writing", result |-> "none",
   settledBy |-> NoResponse, timer |-> FALSE, settles |-> 0, destroyed |-> FALSE]

\* rejectAllPending: the commands after every handler in the pending map was
\* rejected with the reason and its timer cleared.
rejectAllPending(b, cmds, reason) ==
  [k \in 1..Len(cmds) |->
     IF \E h \in b.pending : h.command = k
     THEN [cmds[k] EXCEPT !.phase = "rejected", !.result = reason,
                          !.timer = FALSE, !.settles = @ + 1]
     ELSE cmds[k]]

\* An error event handed to the subscribers.
ErrorEvent(message) == [type |-> "error", payload |-> [message |-> message], at |-> Null]

\* stop() from rejectAllPending to its await of removeSocketIfNeeded: the
\* pending commands are rejected, the socket is destroyed (writes it has not
\* completed are called back with an error), the process is killed.
StopRest(b, cmds) ==
  LET rejected == rejectAllPending(b, cmds, "mpv request canceled during shutdown.")
  IN [backend |-> [b EXCEPT !.pending = {},
                            !.socket = FALSE,
                            !.socketOpen = FALSE,
                            !.destroyedSockets = IF b.socketOpen THEN @ + 1 ELSE @,
                            !.connected = FALSE,
                            !.mpvProcess = FALSE,
                            !.stopPc = "unlink",
                            !.quit = Null],
      commands |-> [k \in 1..Len(rejected) |->
                      IF b.socket /\ rejected[k].phase = "writing"
                      THEN [rejected[k] EXCEPT !.destroyed = TRUE]
                      ELSE rejected[k]]]

\* stop() waiting in Promise.race goes on as soon as its quit command has
\* settled.
StopRace(b, cmds) ==
  IF b.stopPc = "race" /\ cmds[b.quit].phase \in {"resolved", "rejected"}
  THEN StopRest(b, cmds)
  ELSE [backend |-> b, commands |-> cmds]

(***************************************************************************)
(* AppController                                                           *)
(*                                                                         *)
(* The controller's methods are operators on a world record w:             *)
(*   w.pm, w.nextId   the playlist manager and the id source               *)
(*   w.mq, w.tasks    the metadata load queue and its task objects         *)
(*   w.c              the controller's own fields                          *)
(*   w.hs             the async invocations suspended at an await          *)
(*   w.out            the events handed to the event target in this step   *)
(* An operator yields the SET of worlds the method can leave (one element  *)
(* unless shuffle is on).  A step of the model runs from one macrotask     *)
(* (an IPC command, an engine event, a timer, an I/O completion) through   *)
(* every continuation that needs no further I/O.                           *)
(*                                                                         *)
(* Of the playback snapshot the model keeps state, currentTimeSec (0 or    *)
(* 1), repeatMode, shuffleEnabled and currentTrackId; durationSec,         *)
(* volumePercent, liveBitrateKbps and the live audio runtime only feed     *)
(* displayed values and are left out.                                      *)
(***************************************************************************)
\* concurrency the controller constructs its metadata queue with.
ControllerConcurrency == 4

\* status.trackInfo = null.
NoTrackInfo == [displayTitle |-> Null, coverArtPath |-> Null]

\* The reset lyrics snapshot (path "").
NoLyrics == [path |-> Null, activeIndex |-> -1]

\* SessionStore.load() finds no session file, or one that does not parse.
NoSession ==
  [saved |-> FALSE, playlistPaths |-> <<>>, selectedTrackPath |-> Null,
   currentTrackPath |-> Null, currentTrackPositionSec |-> 0, repeatMode |-> "off",
   shuffleEnabled |-> FALSE, volumePercent |-> 100]

\* The files of a first launch: no session file, every audio file in place.
NewDisk == [session |-> NoSession, files |-> Paths]

\* shutdownPromise before shutdown() is called.  Once set, it holds the state
\* of the promise, the await its async body is suspended at, and the session
\* the body handed to SessionStore.save.
NoShutdown == [state |-> "none", at |-> "none", session |-> NoSession]

NewController ==
  [playback |-> [state |-> "stopped",
                 currentTimeSec |-> 0,
                 repeatMode |-> "off",
                 shuffleEnabled |-> FALSE,
                 volumePercent |-> 100,
                 currentTrackId |-> Null],
   status |-> [temporaryMessage |-> "none", backendError |-> "none", trackInfo |-> NoTrackInfo],
   lyrics |-> NoLyrics,
   currentCoverArtPath |-> Null,
   backendReady |-> FALSE,
   fileLoadedWaiters |-> {},
   statusTimer |-> FALSE,
   playbackEmitTimer |-> FALSE,
   statusEmitTimer |-> FALSE,
   sessionTimer |-> FALSE,
   shutdownPromise |-> NoShutdown,
   writeQueue |-> "fulfilled",
   initialized |-> FALSE]

\* An invocation slot: where the invocation is suspended (pc), the locals it
\* holds, the try block an error thrown in it reaches (ctx) and what runs
\* when the nested call it is in returns (cont).
IdleHandler ==
  [pc |-> "idle", trackId |-> Null, path |-> Null, autoplay |-> FALSE,
   seekToSeconds |-> 0, ctx |-> "none", cont |-> "none"]

\* Messages the engine's calls can fail with.  mpv's generic failure is
\* "error running command"; the second spelling differs from it in case only.
BackendErrors == {"error running command", "Error running command", "mpv command timed out"}

\* String.prototype.toLowerCase on those messages.
toLowerCase(message) ==
  IF message = "Error running command" THEN "error running command" ELSE message

\* CoverArtService.resolveForTrack and LyricsService.loadForTrack on the
\* model's file system: the folder of path 1 holds a cover image, and every
\* track has its own lyrics path.
resolveForTrack(trackPath) == IF trackPath = 1 THEN trackPath ELSE Null
loadForTrack(trackPath) == [path |-> trackPath, activeIndex |-> -1]

\* An event handed to the event target: its type and payload (serialised as
\* they are at that moment), and what the controller holds at that moment.
Event(w, type, payload) ==
  [type |-> type,
   payload |-> payload,
   at |-> [currentTrackId |-> w.c.playback.currentTrackId,
           lyrics |-> w.c.lyrics.path,
           coverArtPath |-> w.c.currentCoverArtPath]]

getSnapshot(pl) ==
  [items |-> pl.items,
   selectedTrackId |-> pl.selectedTrackId,
   selectedTrackIds |-> pl.selectedTrackIds,
   currentTrackId |-> pl.currentTrackId,
   sortColumn |-> pl.sortColumn,
   sortDirection |-> pl.sortDirection]

Emit(w, type, payload) == [w EXCEPT !.out = Append(@, Event(w, type, payload))]

emitPlayback(w) ==
  Emit([w EXCEPT !.c.playbackEmitTimer = FALSE], "playback.snapshot", w.c.playback)

emitPlaylist(w) == Emit(w, "playlist.snapshot", getSnapshot(w.pm))

emitStatus(w) ==
  Emit([w EXCEPT !.c.statusEmitTimer = FALSE], "status.snapshot", w.c.status)

emitLyrics(w) == Emit(w, "lyrics.snapshot", w.c.lyrics)

setTemporaryStatus(w, message) ==
  LET w1 == [w EXCEPT !.c.status.temporaryMessage = message]
      w2 == Emit(w1, "status.message", [message |-> message])
  IN [emitStatus(w2) EXCEPT !.c.statusTimer = TRUE]

refreshStatusTrackInfo(w, emit) ==
  LET currentTrackId == w.c.playback.currentTrackId
      w1 == IF currentTrackId # Null /\ currentTrackId \in ItemIds(w.pm.items)
            THEN [w EXCEPT !.c.status.trackInfo =
                    [displayTitle |-> getItemById(w.pm, currentTrackId).metadata.title,
                     coverArtPath |-> w.c.currentCoverArtPath]]
            ELSE [w EXCEPT !.c.status.trackInfo = NoTrackInfo]
  IN IF emit THEN emitStatus(w1) ELSE w1

schedulePlaybackEmitAs_Immediate(w) == emitPlayback(w)

schedulePlaybackEmit(w) == [w EXCEPT !.c.playbackEmitTimer = TRUE]
scheduleStatusEmit(w) == [w EXCEPT !.c.statusEmitTimer = TRUE]

\* executeMetadataLoad's two checks that the track id still maps to the path.
PreflightTrackOk(pl, trackId, filePath) ==
  trackId \in ItemIds(pl.items) /\ getItemById(pl, trackId).path = filePath

LiveTrackOkAs_Always(pl, trackId, filePath) == TRUE

LiveTrackOk(pl, trackId, filePath) ==
  trackId \in ItemIds(pl.items) /\ getItemById(pl, trackId).path = filePath

\* runTask for every task drain has just started: executeMetadataLoad runs
\* to its first await ("extracting") or returns at the preflight check
\* ("skipped").  "returned" is a load that went through its extraction.
runTask(w) ==
  [w EXCEPT !.tasks =
     [t \in 1..Len(w.tasks) |->
        IF w.tasks[t].where = "running" /\ w.tasks[t].stage = "created"
        THEN [w.tasks[t] EXCEPT !.stage =
                IF PreflightTrackOk(w.pm, w.tasks[t].trackId, w.tasks[t].filePath)
                THEN "extracting" ELSE "skipped"]
        ELSE w.tasks[t]]]

\* enqueueMetadataLoad -> MetadataLoadQueue.enqueue, the promise dropped.
enqueueMetadataLoad(w, trackId, filePath, priority) ==
  IF w.mq.shuttingDown THEN w
  ELSE IF Existing(w.mq, trackId) # Null
  THEN IF priority = "high" THEN [w EXCEPT !.mq = promote(w.mq, w.tasks, trackId)] ELSE w
  ELSE LET t == Len(w.tasks) + 1
           created == Append(w.tasks, [trackId |-> trackId, filePath |-> filePath,
                                       where |-> "queued", runs |-> 0, stage |-> "created"])
           pushed == IF priority = "high"
                     THEN [w.mq EXCEPT !.highQueue = Append(@, t)]
                     ELSE [w.mq EXCEPT !.normalQueue = Append(@, t)]
           drained == drain(pushed, created)
       IN runTask([w EXCEPT !.mq = [drained[1] EXCEPT !.inFlightByTrack[trackId] = t],
                            !.tasks = drained[2]])

\* enqueueMetadataLoad for items[from..], "high" for the first six of the batch.
RECURSIVE EnqueueItems(_, _, _)
EnqueueItems(w, its, index) ==
  IF index >= Len(its) THEN w
  ELSE EnqueueItems(enqueueMetadataLoad(w, its[index + 1].id, its[index + 1].path,
                                        IF index < 6 THEN "high" ELSE "normal"),
                    its, index + 1)

\* UNION of F over a set of worlds.
Bind(S, F(_)) == UNION {F(w) : w \in S}

\* The invocation in slot h has returned to the event loop.
Finish(w, h) == [w EXCEPT !.hs[h] = IdleHandler]

\* The invocation in slot h suspends at an await of an I/O completion.
Suspend(w, h, pc) == [w EXCEPT !.hs[h].pc = pc]

\* handlePlaybackCommand's catch block.
IsSoftErrorAs_CaseSensitive(message) == message = "error running command"

IsSoftError(message) == toLowerCase(message) = "error running command"

CatchPlayback(w, message) ==
  IF IsSoftError(message)
  THEN setTemporaryStatus(w, message)
  ELSE Emit(emitStatus([w EXCEPT !.c.status.backendError = message]),
            "backend.error", [message |-> message])

\* What the clear command does once its stop has returned.
ClearResetAs_PlaylistFirst(w) ==
  LET w1 == emitPlaylist(w)
      w2 == [w1 EXCEPT !.c.playback.currentTrackId = Null,
                       !.c.currentCoverArtPath = Null,
                       !.c.lyrics = NoLyrics]
  IN emitLyrics(emitPlayback(refreshStatusTrackInfo(w2, TRUE)))

ClearReset(w) ==
  LET w1 == [w EXCEPT !.c.playback.currentTrackId = Null,
                      !.c.currentCoverArtPath = Null,
                      !.c.lyrics = NoLyrics]
  IN emitLyrics(emitPlayback(emitPlaylist(refreshStatusTrackInfo(w1, TRUE))))

\* What removeTracksFromPlaylist does once its stop has returned.
RemoveReset(w) ==
  LET w1 == [w EXCEPT !.c.playback.currentTrackId = Null,
                      !.c.currentCoverArtPath = Null,
                      !.c.lyrics = NoLyrics]
  IN emitLyrics(emitPlayback(refreshStatusTrackInfo(w1, TRUE)))

\* The caller's code after an awaited call returned normally.
Continue(w, h) ==
  IF w.hs[h].cont = "clear" THEN Finish(ClearReset(w), h)
  ELSE IF w.hs[h].cont = "remove" THEN Finish(RemoveReset(w), h)
  ELSE IF w.hs[h].cont = "replace"
  THEN [w EXCEPT !.hs[h].pc = "replaceFromPath:resolveAudioPaths",
                 !.hs[h].ctx = "playlist", !.hs[h].cont = "return"]
  ELSE Finish(w, h)

\* restoreSession's enqueueMetadataLoad loop over the appended items: "high"
\* for the current track and for the first four.
RECURSIVE EnqueueRestored(_, _, _)
EnqueueRestored(w, its, index) ==
  IF index >= Len(its) THEN w
  ELSE EnqueueRestored(
         enqueueMetadataLoad(w, its[index + 1].id, its[index + 1].path,
                             IF its[index + 1].id = w.c.playback.currentTrackId \/ index < 4
                             THEN "high" ELSE "normal"),
         its, index + 1)

\* restoreSession from its enqueueMetadataLoad loop to its end.  The playlist
\* was empty when restoreSession began, so `appended` is the whole playlist.
RestoreTail(w) == emitPlayback(emitPlaylist(EnqueueRestored(w, w.pm.items, 0)))

\* init() after its try around restoreSession: the status line is refreshed,
\* the session timer is set and init returns.
InitTail(w, h) ==
  Finish([refreshStatusTrackInfo(w, TRUE) EXCEPT !.c.sessionTimer = TRUE,
                                                 !.c.initialized = TRUE], h)

\* The catch of init() around restoreSession.
InitCatch(w, message) ==
  LET text == "Session restore failed: " \o message
  IN Emit(emitStatus([w EXCEPT !.c.status.backendError = text]),
          "backend.error", [message |-> text])

\* restoreSession after its playTrackById, if any.
RestoreAfterTrack(w, h) ==
  IF w.c.backendReady THEN Suspend(w, h, "restore:setVolume")
  ELSE InitTail(RestoreTail(w), h)

\* playTrackById returns to its caller.
Return(w, h) == IF w.hs[h].ctx = "restore" THEN RestoreAfterTrack(w, h) ELSE Finish(w, h)

\* An error thrown in slot h reaches the nearest enclosing catch.
Throw(w, h, message) ==
  IF w.hs[h].ctx = "restore" THEN InitTail(InitCatch(w, message), h)
  ELSE IF w.hs[h].ctx = "playback" THEN Continue(CatchPlayback(w, message), h)
  ELSE IF w.hs[h].ctx = "playlist"
  THEN Finish(setTemporaryStatus(w, message), h)
  ELSE Finish(w, h)

\* The stop command's last three statements.
StopFinish(w) ==
  emitPlayback([w EXCEPT !.c.playback.state = "stopped", !.c.playback.currentTimeSec = 0])

\* handlePlaybackCommand({type: "stop"}), called with cont to run after it.
Stop(w, h, cont) ==
  LET w1 == [w EXCEPT !.hs[h].ctx = "playback", !.hs[h].cont = cont]
  IN IF w.c.backendReady /\ w.c.playback.currentTrackId # Null
     THEN Suspend(w1, h, "stop:pause")
     ELSE Continue(StopFinish(w1), h)

\* The stop command after its seekAbsolute(0) has settled: the try around
\* the seek has an empty catch.
StopSeekSettledAs_Throw(w, h, outcome) ==
  IF outcome = "ok" THEN Continue(StopFinish(w), h) ELSE Throw(w, h, outcome)

StopSeekSettled(w, h, outcome) == Continue(StopFinish(w), h)

\* playTrackById up to its first await.
playTrackById(w, h, trackId, autoplay, seekToSeconds, ctx) ==
  IF ~w.c.backendReady
  THEN {Finish(setTemporaryStatus(w, "Playback backend is unavailable"), h)}
  ELSE IF trackId \notin ItemIds(w.pm.items)
  THEN {Finish(setTemporaryStatus(w, "Selected track not found"), h)}
  ELSE LET track == getItemById(w.pm, trackId)
       IN {[w EXCEPT !.pm = setSelectedTrack(p, trackId),
                     !.c.playback.currentTrackId = trackId,
                     !.hs[h] = [pc |-> "playTrackById:setReplayGain",
                                trackId |-> trackId, path |-> track.path,
                                autoplay |-> autoplay, seekToSeconds |-> seekToSeconds,
                                ctx |-> ctx, cont |-> "return"]] :
             p \in setCurrentTrack(w.pm, trackId)}

\* The temporary status playNextTrack sets when there is no next track.
EndMessageAs_Manual(fromEof) == "No next track"

EndMessage(fromEof) == IF fromEof THEN "End of playlist" ELSE "No next track"

playNextTrack(w, h, fromEof, ctx) ==
  UNION {IF nextTrackId # Null
         THEN playTrackById(w, h, nextTrackId, TRUE, 0, ctx)
         ELSE {Finish(setTemporaryStatus(
                        emitPlayback([w EXCEPT !.c.playback.state = "paused"]),
                        EndMessage(fromEof)), h)} :
           nextTrackId \in getNextTrackId(w.pm)}

playPreviousTrack(w, h, ctx) ==
  UNION {IF previousTrackId = Null
         THEN {Finish(setTemporaryStatus(w, "No previous track"), h)}
         ELSE playTrackById(w, h, previousTrackId, TRUE, 0, ctx) :
           previousTrackId \in getPreviousTrackId(w.pm)}

\* The track "play" and "playPause" start when nothing is current.
Candidate(pl) ==
  IF pl.selectedTrackId # Null THEN pl.selectedTrackId
  ELSE IF Len(pl.items) > 0 THEN pl.items[1].id
  ELSE Null

PlaybackCommands ==
  {[type |-> t, trackId |-> Null] : t \in {"playPause", "play", "pause", "stop", "next", "previous"}}
    \cup {[type |-> "playTrack", trackId |-> id] : id \in TrackIds}

\* handlePlaybackCommand up to its first await; slot h is free.
handlePlaybackCommand(w, h, command) ==
  LET w0 == [w EXCEPT !.hs[h].ctx = "playback", !.hs[h].cont = "return"]
      unavailable == {Finish(setTemporaryStatus(w0, "Playback backend is unavailable"), h)}
  IN CASE command.type \in {"playPause", "play"} ->
            IF w0.c.playback.currentTrackId = Null
            THEN IF Candidate(w0.pm) = Null
                 THEN {Finish(setTemporaryStatus(w0, "Playlist is empty"), h)}
                 ELSE playTrackById(w0, h, Candidate(w0.pm), TRUE, 0, "playback")
            ELSE IF ~w0.c.backendReady THEN unavailable
            ELSE {Suspend(w0, h, IF command.type = "play" THEN "play:play"
                                 ELSE "playPause:togglePause")}
       [] command.type = "pause" ->
            IF ~w0.c.backendReady THEN unavailable ELSE {Suspend(w0, h, "pause:pause")}
       [] command.type = "playTrack" ->
            playTrackById(w0, h, command.trackId, TRUE, 0, "playback")
       [] command.type = "stop" -> {Stop(w0, h, "return")}
       [] command.type = "next" -> playNextTrack(w0, h, FALSE, "playback")
       [] command.type = "previous" -> playPreviousTrack(w0, h, "playback")

\* Whether removeTracksFromPlaylist starts the replacement track playing.
RemoveAutoplayAs_Paused == FALSE

RemoveAutoplay == TRUE

removeTracksFromPlaylist(w, h, trackIds) ==
  IF RemovedCount(w.pm, trackIds) = 0 THEN {Finish(w, h)}
  ELSE UNION {LET w1 == emitPlaylist([w EXCEPT !.pm = p, !.hs[h].ctx = "playlist"])
              IN IF RemovedCurrent(w.pm, trackIds)
                 THEN IF p.currentTrackId # Null
                      THEN playTrackById(w1, h, p.currentTrackId, RemoveAutoplay, 0, "playlist")
                      ELSE {Stop(w1, h, "remove")}
                 ELSE {Finish(w1, h)} :
                p \in removeTracks(w.pm, trackIds)}

\* handlePlaylistCommand({type: "clear"}).
clearPlaylist(w, h) ==
  IF Len(w.pm.items) = 0 THEN Finish(setTemporaryStatus(w, "Playlist is empty"), h)
  ELSE Stop([w EXCEPT !.pm = clear(w.pm)], h, "clear")

\* addPathsToPlaylist once resolveAudioPathsBatch has returned `files`.
addPathsToPlaylist(w, files, index) ==
  IF Len(files) = 0 THEN {setTemporaryStatus(w, "No audio files found")}
  ELSE {EnqueueItems(emitPlaylist([w EXCEPT !.pm = p, !.nextId = w.nextId + Len(files)]),
                     InsertedItems(files, w.nextId), 0) :
          p \in addPaths(w.pm, files, index, w.nextId)}

\* replacePlaylistFromPath up to its first await of I/O; playAfterReplace is
\* kept in the slot's autoplay.
replacePlaylistFromPath(w, h, playAfterReplace) ==
  Stop([w EXCEPT !.hs[h].autoplay = playAfterReplace], h, "replace")

\* replacePlaylistFromPath once resolveAudioPaths has returned `files`.
ReplaceResolved(w, h, files) ==
  IF Len(files) = 0 THEN {Finish(setTemporaryStatus(w, "No audio files found"), h)}
  ELSE UNION {LET w1 == [w EXCEPT !.pm = p, !.nextId = w.nextId + Len(files),
                                  !.c.playback.currentTrackId = Null,
                                  !.c.currentCoverArtPath = Null]
                  w2 == emitPlayback(emitPlaylist(refreshStatusTrackInfo(w1, TRUE)))
                  w3 == EnqueueItems(w2, p.items, 0)
              IN IF w.hs[h].autoplay
                 THEN playTrackById(w3, h, w.nextId, TRUE, 0, "playlist")
                 ELSE {Finish(w3, h)} :
                p \in replaceWithPaths(w.pm, files, w.nextId)}

\* MetadataService.getMetadata on the model's files.
getMetadata(filePath) == [trackNumber |-> 1, title |-> filePath]

\* executeMetadataLoad of task t from the result of its extraction on.
MetadataExtracted(w, t) ==
  LET task == w.tasks[t]
      metadata == getMetadata(task.filePath)
      w0 == [w EXCEPT !.tasks[t].stage = "returned"]
  IN IF ~LiveTrackOk(w.pm, task.trackId, task.filePath) THEN w0
     ELSE LET w1 == Emit([w0 EXCEPT !.pm = updateMetadata(w.pm, task.trackId, metadata)],
                         "playlist.rowMetaUpdated",
                         [trackId |-> task.trackId, metadata |-> metadata])
          IN IF w1.c.playback.currentTrackId = task.trackId
             THEN refreshStatusTrackInfo(w1, TRUE) ELSE w1

\* The callbacks that follow runTask(task) settling: the worker is freed, the
\* task's promise resolves, drain starts what can start, and the track's
\* inFlightByTrack entry is deleted.
MetadataTaskSettled(w, t) ==
  LET drained == drain([w.mq EXCEPT !.workerCount = @ - 1],
                       [w.tasks EXCEPT ![t].where = "settled"])
  IN runTask([w EXCEPT !.mq = [drained[1] EXCEPT !.inFlightByTrack[w.tasks[t].trackId] = Null],
                       !.tasks = drained[2]])

\* LyricsService.updateActiveIndex: a loaded lyrics file has one line, at 1 s.
updateActiveIndex(lyrics, positionSec) ==
  [lyrics EXCEPT !.activeIndex = IF lyrics.path # Null /\ positionSec >= 1 THEN 0 ELSE -1]

\* The engine's state events: the fields the payload carries (keys) and their
\* values.
StatePayloads ==
  {[keys |-> {"paused"}, paused |-> p, timePosSec |-> 0] : p \in BOOLEAN}
    \cup {[keys |-> {"timePosSec"}, paused |-> FALSE, timePosSec |-> t] : t \in 0..1}

\* The engine's volume in whole percents, on which Math.round changes nothing;
\* mpv allows more than the controller's 130.
VolumePayloads ==
  {[keys |-> {"volumePercent"}, paused |-> FALSE, timePosSec |-> 0, volumePercent |-> v] :
     v \in {200}}

\* handleBackendEvent({type: "state", payload}).
handleStateEvent(w, payload) ==
  LET w1 == IF "timePosSec" \in payload.keys
            THEN [w EXCEPT !.c.playback.currentTimeSec = payload.timePosSec] ELSE w
      wv == IF "volumePercent" \in payload.keys
            THEN [w1 EXCEPT !.c.playback.volumePercent = clamp(payload.volumePercent, 0, 130)]
            ELSE w1
      w2 == IF "paused" \in payload.keys
            THEN [wv EXCEPT !.c.playback.state =
                    IF wv.c.playback.currentTrackId # Null
                    THEN (IF payload.paused THEN "paused" ELSE "playing")
                    ELSE "stopped"]
            ELSE wv
      updatedLyrics == updateActiveIndex(w2.c.lyrics, w2.c.playback.currentTimeSec)
      w3 == IF updatedLyrics.activeIndex # w2.c.lyrics.activeIndex
            THEN emitLyrics([w2 EXCEPT !.c.lyrics = updatedLyrics]) ELSE w2
  IN schedulePlaybackEmit(scheduleStatusEmit(refreshStatusTrackInfo(w3, FALSE)))

\* handleBackendEvent({type: "error", message}).
handleErrorEvent(w, message) ==
  Emit(emitStatus([w EXCEPT !.c.status.backendError = message]),
       "backend.error", [message |-> message])

\* The engine call playTrackById makes for its autoplay argument: play() or
\* pause().
PlayOrPauseAs_AlwaysPlay(autoplay) == "playTrackById:play"

PlayOrPause(autoplay) == IF autoplay THEN "playTrackById:play" ELSE "playTrackById:pause"

\* playTrackById after waitForFileLoaded resolved.
AfterWaitAs_NoSeek(w, h) == Suspend(w, h, PlayOrPause(w.hs[h].autoplay))

AfterWait(w, h) ==
  Suspend(w, h, IF w.hs[h].seekToSeconds > 0 THEN "playTrackById:seekAbsolute"
                ELSE PlayOrPause(w.hs[h].autoplay))

\* resolveFileLoadedWaiters: every waiting invocation goes on.
RECURSIVE ReleaseWaiters(_, _)
ReleaseWaiters(w, waiters) ==
  IF waiters = {} THEN w
  ELSE LET h == CHOOSE x \in waiters : TRUE
       IN ReleaseWaiters(AfterWait(w, h), waiters \ {h})

resolveFileLoadedWaitersAs_KeepList(w) == ReleaseWaiters(w, w.c.fileLoadedWaiters)

resolveFileLoadedWaiters(w) ==
  ReleaseWaiters([w EXCEPT !.c.fileLoadedWaiters = {}], w.c.fileLoadedWaiters)

\* playTrackById from the lyrics and cover art results to its end.
PlayTrackLoaded(w, h) ==
  LET track == w.hs[h]
      w1 == [w EXCEPT !.c.lyrics = loadForTrack(track.path),
                      !.c.currentCoverArtPath = resolveForTrack(track.path)]
      w2 == emitLyrics(emitPlayback(emitPlaylist(refreshStatusTrackInfo(w1, TRUE))))
  IN Return(enqueueMetadataLoad(w2, track.trackId, track.path, "high"), h)

\* The invocation suspended in slot h goes on with the outcome of the call
\* it awaited: "ok" or the message of the error the call rejected with.
Resume(w, h, outcome) ==
  LET pc == w.hs[h].pc
  IN CASE pc = "stop:pause" ->
            IF outcome = "ok" THEN Suspend(w, h, "stop:seekAbsolute") ELSE Throw(w, h, outcome)
       [] pc = "stop:seekAbsolute" -> StopSeekSettled(w, h, outcome)
       [] pc = "playTrackById:setReplayGain" ->
            IF outcome = "ok" THEN Suspend(w, h, "playTrackById:loadFile")
            ELSE Throw(w, h, outcome)
       [] pc = "playTrackById:loadFile" ->
            IF outcome = "ok"
            THEN [Suspend(w, h, "playTrackById:waitForFileLoaded")
                    EXCEPT !.c.fileLoadedWaiters = @ \cup {h}]
            ELSE Throw(w, h, outcome)
       [] pc = "playTrackById:seekAbsolute" -> Suspend(w, h, PlayOrPause(w.hs[h].autoplay))
       [] pc = "playTrackById:play" ->
            IF outcome = "ok"
            THEN Suspend([w EXCEPT !.c.playback.state = "playing",
                                   !.c.playback.currentTimeSec = w.hs[h].seekToSeconds],
                         h, "playTrackById:loadForTrack")
            ELSE Throw(w, h, outcome)
       [] pc = "playTrackById:pause" ->
            IF outcome = "ok"
            THEN Suspend([w EXCEPT !.c.playback.state = "paused",
                                   !.c.playback.currentTimeSec = w.hs[h].seekToSeconds],
                         h, "playTrackById:loadForTrack")
            ELSE Throw(w, h, outcome)
       [] pc = "restore:setVolume" ->
            IF outcome = "ok" THEN InitTail(RestoreTail(w), h) ELSE Throw(w, h, outcome)
       [] pc = "playTrackById:loadForTrack" -> PlayTrackLoaded(w, h)
       [] pc = "play:play" ->
            IF outcome = "ok"
            THEN Finish(emitPlayback([w EXCEPT !.c.playback.state = "playing"]), h)
            ELSE Throw(w, h, outcome)
       [] pc = "pause:pause" ->
            IF outcome = "ok"
            THEN Finish(emitPlayback([w EXCEPT !.c.playback.state = "paused"]), h)
            ELSE Throw(w, h, outcome)
       [] pc = "playPause:togglePause" ->
            IF outcome = "ok" THEN Finish(w, h) ELSE Throw(w, h, outcome)

\* handlePlaybackCommand({type: "cycleRepeat"}).
cycleRepeat(w) ==
  LET p == cycleRepeatMode(w.pm)
  IN emitPlayback([w EXCEPT !.pm = p, !.c.playback.repeatMode = p.repeatMode])

\* handlePlaybackCommand({type: "toggleShuffle"}).
toggleShuffleCommand(w) ==
  {emitPlayback([w EXCEPT !.pm = p, !.c.playback.shuffleEnabled = p.shuffleEnabled]) :
     p \in toggleShuffle(w.pm)}

\* path.resolve.  The paths 1..MaxPaths are resolved; MaxPaths + p is another
\* spelling of path p.
normalizePath(filePath) == IF filePath > MaxPaths THEN filePath - MaxPaths ELSE filePath

\* Every path of the model carries a supported audio extension.
isAudioFile(filePath) == filePath \in Paths

isValidRepeatMode(value) == value \in {"off", "all", "one"}

\* The first item with the path (Array.prototype.find), as its id, or Null.
FindByPath(its, path) ==
  IF \E i \in 1..Len(its) : its[i].path = path
  THEN its[CHOOSE i \in 1..Len(its) :
             its[i].path = path /\ \A j \in 1..(i - 1) : its[j].path # path].id
  ELSE Null

\* persistSession: the session it hands to SessionStore.save.
persistSession(w) ==
  [saved |-> TRUE,
   playlistPaths |-> [i \in 1..Len(w.pm.items) |-> w.pm.items[i].path],
   selectedTrackPath |->
     IF w.pm.selectedTrackId \in ItemIds(w.pm.items)
     THEN getItemById(w.pm, w.pm.selectedTrackId).path ELSE Null,
   currentTrackPath |->
     IF w.c.playback.currentTrackId \in ItemIds(w.pm.items)
     THEN getItemById(w.pm, w.c.playback.currentTrackId).path ELSE Null,
   currentTrackPositionSec |-> w.c.playback.currentTimeSec,
   repeatMode |-> w.c.playback.repeatMode,
   shuffleEnabled |-> w.c.playback.shuffleEnabled,
   volumePercent |-> w.c.playback.volumePercent]

\* The loop of restoreSession over the saved paths: those that resolve to a
\* file that exists and is an audio file, in the saved order.
ExistingPathsAs_Distinct(playlistPaths, files) ==
  LET normalized == [i \in 1..Len(playlistPaths) |-> normalizePath(playlistPaths[i])]
      First(i) == \A j \in 1..(i - 1) : normalized[j] # normalized[i]
      kept == {i \in 1..Len(normalized) :
                 normalized[i] \in files /\ isAudioFile(normalized[i]) /\ First(i)}
      RECURSIVE Collect(_)
      Collect(i) == IF i > Len(normalized) THEN <<>>
                    ELSE (IF i \in kept THEN <<normalized[i]>> ELSE <<>>) \o Collect(i + 1)
  IN Collect(1)

ExistingPaths(playlistPaths, files) ==
  LET normalized == [i \in 1..Len(playlistPaths) |-> normalizePath(playlistPaths[i])]
      Exists(path) == path \in files /\ isAudioFile(path)
  IN SelectSeq(normalized, Exists)

\* restoreSession up to its first await of the engine; d is the disk it
\* reads.  init() calls it before any command is served, on an empty playlist.
restoreSession(w, h, d) ==
  LET session == d.session
  IN IF ~session.saved
     THEN {InitTail([w EXCEPT !.c.playback.volumePercent = 100], h)}
     ELSE
       LET repeatMode == IF isValidRepeatMode(session.repeatMode)
                         THEN session.repeatMode ELSE "off"
           existingPaths == ExistingPaths(session.playlistPaths, d.files)
           appended == InsertedItems(existingPaths, w.nextId)
           selected == FindByPath(appended, normalizePath(session.selectedTrackPath))
           current == FindByPath(appended, normalizePath(session.currentTrackPath))
           Restored(p) ==
             LET w1 == [w EXCEPT !.pm = IF session.selectedTrackPath # Null
                                        THEN setSelectedTrack(p, selected) ELSE p,
                                 !.nextId = w.nextId + Len(existingPaths),
                                 !.c.playback.repeatMode = repeatMode,
                                 !.c.playback.shuffleEnabled = session.shuffleEnabled,
                                 !.c.playback.volumePercent =
                                   clamp(session.volumePercent, 0, 130),
                                 !.hs[h].ctx = "restore"]
             IN IF w1.c.backendReady /\ session.currentTrackPath # Null /\ current # Null
                THEN playTrackById(w1, h, current, FALSE,
                                   Max(0, session.currentTrackPositionSec), "restore")
                ELSE {RestoreAfterTrack(w1, h)}
       IN UNION {UNION {Restored(p2) :
                          p2 \in setShuffleEnabled(setRepeatMode(p1, repeatMode),
                                                   session.shuffleEnabled)} :
                   p1 \in addPaths(w.pm, existingPaths, NoIndex, w.nextId)}

\* The pcs at which an invocation awaits a call of the engine.
BackendPcs ==
  {"stop:pause", "stop:seekAbsolute", "playTrackById:setReplayGain",
   "playTrackById:loadFile", "playTrackById:seekAbsolute", "playTrackById:play",
   "playTrackById:pause", "restore:setVolume",
   "play:play", "pause:pause", "playPause:togglePause"}

(***************************************************************************)
(* State                                                                   *)
(***************************************************************************)
VARIABLES
  playlistManager,  \* the PlaylistManager's fields
  nextId,           \* the next id randomUUID() hands out (ids are never reused)
  metadataQueue,    \* the MetadataLoadQueue's fields
  tasks,            \* the task objects the queue has created, by serial number
  calls,            \* the enqueue calls made so far and the promise each got
  backend,          \* the MpvIpcBackend's fields
  commands,         \* the sendCommand invocations made so far
  controller,       \* the AppController's fields
  invocations,      \* the controller's invocations suspended at an await, by slot
  emitted,          \* the events the last step handed to the event target, in order
  lastStep,         \* the handler the last step ran
  disk              \* the session file and the audio files that exist

plVars == <<playlistManager, nextId>>
mqVars == <<metadataQueue, tasks, calls>>
trVars == <<backend, commands>>
ctlVars == <<controller, invocations, emitted, lastStep, disk>>

vars == <<playlistManager, nextId, metadataQueue, tasks, calls, backend, commands,
          controller, invocations, emitted, lastStep, disk>>

\* The parts a specification does not use stay as constructed.
PlIdle == playlistManager = NewPlaylist /\ nextId = 1
MqIdle == metadataQueue = NewMetadataLoadQueue(1) /\ tasks = <<>> /\ calls = {}
TrIdle == backend = NewBackend /\ commands = <<>>
CtlIdle ==
  /\ controller = NewController
  /\ invocations = <<>>
  /\ emitted = <<>>
  /\ lastStep = [kind |-> "none", h |-> Null, outcome |-> "none"]
  /\ disk = NewDisk

(***************************************************************************)
(* The playlist manager on its own: every public mutator, with arguments   *)
(* drawn from small sets.                                                  *)
(***************************************************************************)
PathBatches == {<<p>> : p \in Paths} \cup {<<p, q>> : p \in Paths, q \in Paths}

PlInit ==
  /\ playlistManager = NewPlaylist
  /\ nextId = 1
  /\ MqIdle
  /\ TrIdle
  /\ CtlIdle

PlAddPaths ==
  \E paths \in PathBatches, index \in {NoIndex} \cup (-1..(Len(playlistManager.items) + 1)) :
    /\ nextId + Len(paths) - 1 <= MaxIds
    /\ playlistManager' \in addPaths(playlistManager, paths, index, nextId)
    /\ nextId' = nextId + Len(paths)
    /\ UNCHANGED <<mqVars, trVars, ctlVars>>

PlReplaceWithPaths ==
  \E paths \in PathBatches :
    /\ nextId + Len(paths) - 1 <= MaxIds
    /\ playlistManager' \in replaceWithPaths(playlistManager, paths, nextId)
    /\ nextId' = nextId + Len(paths)
    /\ UNCHANGED <<mqVars, trVars, ctlVars>>

PlClear ==
  /\ playlistManager' = clear(playlistManager)
  /\ UNCHANGED <<nextId, mqVars, trVars, ctlVars>>

PlRemoveTracks ==
  \E toRemove \in SUBSET TrackIds :
    /\ playlistManager' \in removeTracks(playlistManager, toRemove)
    /\ UNCHANGED <<nextId, mqVars, trVars, ctlVars>>

PlMoveTracks ==
  \E requested \in SUBSET TrackIds, index \in -1..(Len(playlistManager.items) + 1) :
    /\ playlistManager' \in moveTracks(playlistManager, requested, index)
    /\ UNCHANGED <<nextId, mqVars, trVars, ctlVars>>

PlSortBy ==
  \E column \in SortColumns :
    /\ playlistManager' \in sortBy(playlistManager, column)
    /\ UNCHANGED <<nextId, mqVars, trVars, ctlVars>>

\* The controller calls setCurrentTrack only with the id of an item it has
\* just looked up (playTrackById).
PlSetCurrentTrack ==
  \E trackId \in ItemIds(playlistManager.items) :
    /\ playlistManager' \in setCurrentTrack(playlistManager, trackId)
    /\ UNCHANGED <<nextId, mqVars, trVars, ctlVars>>

PlSetSelectedTrack ==
  \E trackId \in TrackIds \cup {Null} :
    /\ playlistManager' = setSelectedTrack(playlistManager, trackId)
    /\ UNCHANGED <<nextId, mqVars, trVars, ctlVars>>

PlSetSelectedTracks ==
  \E requested \in SUBSET TrackIds, primaryTrackId \in TrackIds \cup {Null} :
    /\ playlistManager' = setSelectedTracks(playlistManager, requested, primaryTrackId)
    /\ UNCHANGED <<nextId, mqVars, trVars, ctlVars>>

PlUpdateMetadata ==
  \E trackId \in TrackIds, metadata \in MetadataValues :
    /\ playlistManager' = updateMetadata(playlistManager, trackId, metadata)
    /\ UNCHANGED <<nextId, mqVars, trVars, ctlVars>>

PlCycleRepeatMode ==
  /\ playlistManager' = cycleRepeatMode(playlistManager)
  /\ UNCHANGED <<nextId, mqVars, trVars, ctlVars>>

PlToggleShuffle ==
  /\ playlistManager' \in toggleShuffle(playlistManager)
  /\ UNCHANGED <<nextId, mqVars, trVars, ctlVars>>

PlNext ==
  \/ PlAddPaths
  \/ PlReplaceWithPaths
  \/ PlClear
  \/ PlRemoveTracks
  \/ PlMoveTracks
  \/ PlSortBy
  \/ PlSetCurrentTrack

SpecPlaylist == PlInit /\ [][PlNext]_vars

(***************************************************************************)
(* C1: after any sequence of addPaths, replaceWithPaths, removeTracks,     *)
(* moveTracks, sortBy and clear (setCurrentTrack only ever given the id of *)
(* an item present at that moment), currentTrackId is null or the id of an *)
(* item currently in items.                                                *)
(***************************************************************************)
C1_CurrentTrackInItems ==
  \/ playlistManager.currentTrackId = Null
  \/ playlistManager.currentTrackId \in ItemIds(playlistManager.items)

\* A current track survives a removal of other items, with some id already gone.
C1_Witness ==
  /\ playlistManager.currentTrackId # Null
  /\ nextId > Len(playlistManager.items) + 1
  /\ Len(playlistManager.items) >= 1


(***************************************************************************)
(* The metadata load queue on its own.  runTask is the caller's: a started *)
(* task finishes (by success or failure) at any later moment.              *)
(***************************************************************************)
\* Tasks created in one behaviour; an enqueue that would create one more
\* is not followed.
MaxEnqueues == 3
\* Largest options.concurrency the constructor is given.
MaxConcurrency == 2

Priorities == {"high", "normal"}

\* A call's promise: task = Null is Promise.resolve(), otherwise it is the
\* taskPromise created together with task `task`.
CallResolved(c) == c.task = Null \/ tasks[c.task].where = "settled"

\* Tasks of a track that sit in a lane or are running.
LiveTasks(trackId) ==
  {t \in 1..Len(tasks) : tasks[t].trackId = trackId /\ tasks[t].where \in {"queued", "running"}}

MqInit ==
  /\ PlIdle
  /\ TrIdle
  /\ CtlIdle
  /\ \E optionsConcurrency \in 0..MaxConcurrency :
       metadataQueue = NewMetadataLoadQueue(optionsConcurrency)
  /\ tasks = <<>>
  /\ calls = {}

\* What a step of the queue leaves in the log: the method or callback that
\* ran, the track or task it ran for, and the priority or outcome it was
\* given.
MqStepped(kind, h, outcome) ==
  /\ lastStep' = [kind |-> kind, h |-> h, outcome |-> outcome]
  /\ UNCHANGED <<plVars, trVars, controller, invocations, emitted, disk>>

\* A call is recorded with the task its promise belongs to and the live task
\* of its track at the moment of the call (Null if none).
MqEnqueue ==
  \E trackId \in TrackIds, priority \in Priorities :
    /\ (~metadataQueue.shuttingDown /\ Existing(metadataQueue, trackId) = Null) =>
         Len(tasks) < MaxEnqueues
    /\ MqStepped("enqueue", trackId, priority)
    /\ LET live == IF LiveTasks(trackId) = {} THEN Null ELSE CHOOSE t \in LiveTasks(trackId) : TRUE
           call == [live |-> live]
           existing == Existing(metadataQueue, trackId)
       IN IF metadataQueue.shuttingDown
          THEN /\ calls' = calls \cup {call @@ [task |-> Null]}
               /\ UNCHANGED <<metadataQueue, tasks>>
          ELSE IF existing # Null
          THEN /\ calls' = calls \cup {call @@ [task |-> existing]}
               /\ metadataQueue' = IF priority = "high"
                                   THEN promote(metadataQueue, tasks, trackId)
                                   ELSE metadataQueue
               /\ UNCHANGED tasks
          ELSE LET t == Len(tasks) + 1
                   created == Append(tasks, [trackId |-> trackId, where |-> "queued", runs |-> 0])
                   pushed == IF priority = "high"
                             THEN [metadataQueue EXCEPT !.highQueue = Append(@, t)]
                             ELSE [metadataQueue EXCEPT !.normalQueue = Append(@, t)]
                   drained == drain(pushed, created)
               IN /\ metadataQueue' = [drained[1] EXCEPT !.inFlightByTrack[trackId] = t]
                  /\ tasks' = drained[2]
                  /\ calls' = calls \cup {call @@ [task |-> t]}

\* runTask(task) settles, fulfilled or rejected: the .catch() and .finally()
\* callbacks of drain.
MqTaskFinished ==
  \E t \in 1..Len(tasks), outcome \in {"fulfilled", "rejected"} :
    /\ tasks[t].where = "running"
    /\ LET drained == drain([metadataQueue EXCEPT !.workerCount = @ - 1],
                            [tasks EXCEPT ![t].where = TaskCompletion(outcome)])
       IN /\ metadataQueue' = drained[1]
          /\ tasks' = drained[2]
    /\ MqStepped("taskFinished", t, outcome)
    /\ UNCHANGED calls

\* The .finally() callback of enqueue: the entry is deleted and the promise the
\* callers hold resolves.
MqPromiseSettled ==
  \E t \in 1..Len(tasks) :
    /\ tasks[t].where = "resolved"
    /\ metadataQueue' = [metadataQueue EXCEPT !.inFlightByTrack[tasks[t].trackId] = Null]
    /\ tasks' = [tasks EXCEPT ![t].where = "settled"]
    /\ MqStepped("promiseSettled", t, "none")
    /\ UNCHANGED calls

\* shutdown(): every task still in a lane is resolved, unrun.
MqShutdown ==
  /\ LET pendingTasks == Range(metadataQueue.highQueue) \cup Range(metadataQueue.normalQueue)
     IN /\ metadataQueue' = [ShutdownLanes(metadataQueue) EXCEPT !.shuttingDown = TRUE]
        /\ tasks' = [t \in 1..Len(tasks) |->
                       IF t \in pendingTasks
                       THEN [tasks[t] EXCEPT !.where = "resolved"] ELSE tasks[t]]
  /\ MqStepped("shutdown", Null, "none")
  /\ UNCHANGED calls

MqNext ==
  \/ MqEnqueue
  \/ MqTaskFinished
  \/ MqPromiseSettled
  \/ MqShutdown

SpecQueue == MqInit /\ [][MqNext]_vars

(***************************************************************************)
(* C2: at any time at most one task per track id is queued or running; an  *)
(* enqueue for a track whose task is still queued or running creates no    *)
(* second task but shares that task's promise; no task is executed more    *)
(* than once; and a caller's completion is resolved only once the single   *)
(* execution of its task has finished (or, the queue having been shut      *)
(* down, the task was resolved unrun).                                     *)
(***************************************************************************)
C2_OneTaskPerTrack ==
  /\ \A trackId \in TrackIds : Cardinality(LiveTasks(trackId)) <= 1
  /\ \A t \in 1..Len(tasks) : tasks[t].runs <= 1
  /\ \A c \in calls :
       c.live # Null =>
         \/ c.task = c.live
         \/ c.task = Null /\ metadataQueue.shuttingDown
  /\ \A c \in calls :
       (c.task # Null /\ CallResolved(c)) =>
         \/ tasks[c.task].runs = 1
         \/ tasks[c.task].runs = 0 /\ metadataQueue.shuttingDown

\* Two callers shared one task, which ran once and has resolved both.
C2_Witness ==
  \E c1, c2 \in calls :
    /\ c1.task # Null
    /\ c1.live = Null
    /\ c2.live = c1.task
    /\ c2.task = c1.task
    /\ tasks[c1.task].runs = 1
    /\ CallResolved(c1)
    /\ CallResolved(c2)
    /\ ~metadataQueue.shuttingDown

(***************************************************************************)
(* C6: once shutdown() has been called, the lanes are empty, every task    *)
(* that had not been started is resolved and its task function is never    *)
(* invoked (no task's invocation count changes any more, also not when a   *)
(* running task finishes), and every later enqueue gets an already         *)
(* resolved promise, creates no task and adds nothing to a lane.           *)
(***************************************************************************)
C6_AfterShutdown ==
  [][metadataQueue'.shuttingDown =>
       /\ metadataQueue'.highQueue = <<>>
       /\ metadataQueue'.normalQueue = <<>>
       /\ Len(tasks') = Len(tasks)
       /\ \A t \in 1..Len(tasks) :
            /\ tasks'[t].runs = tasks[t].runs
            /\ tasks'[t].where # "queued"
            /\ tasks'[t].runs = 0 => tasks'[t].where \in {"resolved", "settled"}
       /\ \A c \in calls' \ calls : c.task = Null]_vars

\* After shutdown: a task resolved unrun, a task that was running has finished,
\* and a later enqueue has been answered.
C6_Witness ==
  /\ metadataQueue.shuttingDown
  /\ metadataQueue.workerCount = 0
  /\ \E t \in 1..Len(tasks) : tasks[t].runs = 0 /\ tasks[t].where = "settled"
  /\ \E t \in 1..Len(tasks) : tasks[t].runs = 1 /\ tasks[t].where = "settled"
  /\ \E c \in calls : c.task = Null

(***************************************************************************)
(* The engine transport on its own.  The engine answers written commands   *)
(* in any order, and may send a line with any request id.                  *)
(***************************************************************************)
\* sendCommand invocations in one behaviour (the quit commands of stop()
\* come on top), and start() calls.
MaxCommands == 3
MaxStarts == 2

TrInit ==
  /\ PlIdle
  /\ MqIdle
  /\ CtlIdle
  /\ backend = NewBackend
  /\ commands = <<>>

\* What a step of the transport leaves in the event log: the events it
\* emitted to the subscribers, and which handler ran.
TrStepped(kind, h, out) ==
  /\ emitted' = out
  /\ lastStep' = [kind |-> kind, h |-> h, outcome |-> "none"]
  /\ UNCHANGED <<controller, invocations, disk>>

\* start(): the process is spawned and the socket connects.  The
\* observe_property commands it then sends are TrSendCommand steps.
TrStart ==
  /\ ~backend.connected
  /\ ~backend.mpvProcess
  /\ backend.stopPc = "idle"
  /\ backend.starts < MaxStarts
  /\ backend' = [backend EXCEPT !.shuttingDown = FALSE, !.mpvProcess = TRUE,
                                !.socket = TRUE, !.connected = TRUE,
                                !.processes = @ + 1, !.socketOpen = TRUE, !.starts = @ + 1]
  /\ UNCHANGED commands
  /\ TrStepped("start", Null, <<>>)
  /\ UNCHANGED <<plVars, mqVars>>

\* sendCommand up to its first await: the connection check, the request id,
\* and the write.
SendCommand(max) ==
  /\ Len(commands) < max
  /\ IF ~IsConnected(backend)
     THEN /\ commands' = Append(commands, NotConnected)
          /\ UNCHANGED backend
     ELSE /\ commands' = Append(commands, Writing(backend.nextRequestId))
          /\ backend' = [backend EXCEPT !.nextRequestId = NextRequestId(backend)]
  /\ TrStepped("sendCommand", Null, <<>>)
  /\ UNCHANGED <<plVars, mqVars>>

TrSendCommand == SendCommand(MaxCommands)

\* The write callback: on success the handlers are registered and the timer
\* armed, on a write error the command is rejected.  A write whose socket
\* was destroyed before the callback ran is called back with an error.
TrWritten ==
  \E k \in 1..Len(commands), ok \in BOOLEAN :
    /\ commands[k].phase = "writing"
    /\ commands[k].destroyed => ~ok
    /\ LET after ==
             IF ok
             THEN StopRace([backend EXCEPT !.pending =
                               @ \cup {[requestId |-> commands[k].requestId, command |-> k]}],
                           [commands EXCEPT ![k].phase = "pending", ![k].timer = TRUE])
             ELSE StopRace(backend,
                           [commands EXCEPT ![k].phase = "rejected", ![k].result = "write error",
                                            ![k].settles = @ + 1])
       IN backend' = after.backend /\ commands' = after.commands
    /\ TrStepped("written", k, <<>>)
    /\ UNCHANGED <<plVars, mqVars>>

\* handleMessage for a line that carries a request id.
Response(lines) ==
  \E response \in lines :
    /\ backend.socketOpen
    /\ LET handlers == PendingGet(backend.pending, response.request_id)
           after == IF handlers # NoHandlers
                    THEN StopRace([backend EXCEPT !.pending = @ \ {handlers}],
                                  [commands EXCEPT ![handlers.command] =
                                      SettleByResponse(commands[handlers.command], response)])
                    ELSE [backend |-> backend, commands |-> commands]
       IN backend' = after.backend /\ commands' = after.commands
    /\ TrStepped("response", response.request_id, <<>>)
    /\ UNCHANGED <<plVars, mqVars>>

TrResponse == Response(Responses(0..backend.nextRequestId))

\* The per-command timer fires (MPV_COMMAND_TIMEOUT_MS after registration).
TrTimeout ==
  \E k \in 1..Len(commands) :
    /\ commands[k].timer
    /\ LET handlers == PendingGet(backend.pending, commands[k].requestId)
           after == IF handlers = NoHandlers
                    THEN [backend |-> backend, commands |-> [commands EXCEPT ![k].timer = FALSE]]
                    ELSE StopRace([backend EXCEPT !.pending = TimeoutDelete(@, handlers)],
                                  [commands EXCEPT ![handlers.command].phase = "rejected",
                                                   ![handlers.command].result = "timed out",
                                                   ![handlers.command].timer = FALSE,
                                                   ![handlers.command].settles = @ + 1])
       IN backend' = after.backend /\ commands' = after.commands
    /\ TrStepped("timeout", k, <<>>)
    /\ UNCHANGED <<plVars, mqVars>>

TrNext ==
  \/ TrStart
  \/ TrSendCommand
  \/ TrWritten
  \/ TrResponse
  \/ TrTimeout

SpecTransport == TrInit /\ [][TrNext]_vars

(***************************************************************************)
(* C3: request ids are assigned strictly increasing and never reused; a    *)
(* command settled by a response is settled by the response that carries   *)
(* its own request id, with that response's data (or its error, unless the *)
(* error is "success"), whatever the order of arrival; a command that is   *)
(* still pending has met no response with its id, so a response that       *)
(* matches no pending command has settled nothing.                         *)
(***************************************************************************)
C3_Correlation ==
  /\ \A i, j \in 1..Len(commands) :
       (i < j /\ commands[i].requestId # Null /\ commands[j].requestId # Null)
         => commands[i].requestId < commands[j].requestId
  /\ \A k \in 1..Len(commands) :
       commands[k].requestId # Null => commands[k].requestId < backend.nextRequestId
  /\ \A k \in 1..Len(commands) :
       commands[k].settledBy # NoResponse =>
         /\ commands[k].settledBy.request_id = commands[k].requestId
         /\ IF commands[k].settledBy.error \in {"none", "success"}
            THEN commands[k].phase = "resolved" /\ commands[k].result = commands[k].settledBy.data
            ELSE commands[k].phase = "rejected" /\ commands[k].result = commands[k].settledBy.error
  /\ \A h \in backend.pending :
       /\ commands[h.command].requestId = h.requestId
       /\ commands[h.command].phase = "pending"
  /\ \A k \in 1..Len(commands) :
       commands[k].phase \in {"writing", "pending"} => commands[k].settledBy = NoResponse

\* Two commands were in flight together and the second was answered first,
\* each with its own data.
C3_Witness ==
  /\ Len(commands) >= 2
  /\ commands[2].phase = "resolved"
  /\ commands[2].result = "b"
  /\ commands[1].phase = "pending"
  /\ commands[1].requestId = 1
  /\ commands[2].requestId = 2

(***************************************************************************)
(* C12: when the timeout timer of a pending command fires, that command is *)
(* rejected with the timeout error and its entry leaves the pending map,   *)
(* while every other command and every other pending entry stay as they    *)
(* were; a command that is settled never changes again, so a response that *)
(* arrives for the id of a timed-out command is ignored and an answered    *)
(* command is not timed out; resolve or reject is called once on a settled *)
(* command and never on an unsettled one.                                  *)
(***************************************************************************)
C12_TimeoutStep ==
  /\ lastStep'.kind = "timeout" =>
       LET k == lastStep'.h
       IN /\ commands[k].phase = "pending"
          /\ commands'[k].phase = "rejected"
          /\ commands'[k].result = "timed out"
          /\ backend'.pending = {h \in backend.pending : h.command # k}
          /\ \A h \in backend.pending : h.command = k => h.requestId = commands[k].requestId
          /\ \A j \in 1..Len(commands) : j # k => commands'[j] = commands[j]
  /\ \A k \in 1..Len(commands) :
       commands[k].phase \in {"resolved", "rejected"} => commands'[k] = commands[k]
  /\ \A k \in 1..Len(commands') :
       commands'[k].settles = IF commands'[k].phase \in {"resolved", "rejected"} THEN 1 ELSE 0

C12_Timeouts == [][C12_TimeoutStep]_vars

\* A response carrying the id of a command that timed out has just been
\* handled, while another command is still pending.
C12_Witness ==
  /\ lastStep.kind = "response"
  /\ \E k \in 1..Len(commands) :
       /\ commands[k].requestId = lastStep.h
       /\ commands[k].result = "timed out"
       /\ commands[k].settles = 1
  /\ \E j \in 1..Len(commands) : commands[j].phase = "pending"

(***************************************************************************)
(* The controller: commands, engine events, timers and I/O completions     *)
(* around the playlist manager and the metadata queue.  The engine's       *)
(* calls are taken at their interface: each succeeds or rejects with one   *)
(* of BackendErrors.  Metadata extractions stay in flight here; they       *)
(* complete in SpecMetaLoad.                                               *)
(***************************************************************************)
\* Invocations that can be suspended at the same time.
MaxHandlers == 1

Slots == 1..MaxHandlers

World ==
  [pm |-> playlistManager, nextId |-> nextId, mq |-> metadataQueue, tasks |-> tasks,
   c |-> controller, hs |-> invocations, out |-> <<>>]

\* The step leaves world w; `step` names the handler that ran.
Becomes(w, step) ==
  /\ playlistManager' = w.pm
  /\ nextId' = w.nextId
  /\ metadataQueue' = w.mq
  /\ tasks' = w.tasks
  /\ controller' = w.c
  /\ invocations' = w.hs
  /\ emitted' = w.out
  /\ lastStep' = step
  /\ UNCHANGED <<calls, trVars, disk>>

\* `outcome` is what the call the invocation awaited settled with.
Step(kind, h, outcome) == [kind |-> kind, h |-> h, outcome |-> outcome]

\* The slot a new invocation takes.
FreeSlot(h) == invocations[h].pc = "idle" /\ \A g \in 1..(h - 1) : invocations[g].pc # "idle"

CtlInit ==
  /\ playlistManager = NewPlaylist
  /\ nextId = 1
  /\ metadataQueue = NewMetadataLoadQueue(ControllerConcurrency)
  /\ tasks = <<>>
  /\ calls = {}
  /\ TrIdle
  /\ controller = NewController
  /\ invocations = [h \in Slots |-> IdleHandler]
  /\ emitted = <<>>
  /\ lastStep = Step("constructor", Null, "none")
  /\ disk = NewDisk

\* init(), called once, before anything else runs: the engine starts
\* ("ready") or does not ("failed"), then the saved session is restored.
Start(outcomes) ==
  /\ ~controller.initialized
  /\ \A g \in Slots : invocations[g].pc = "idle"
  /\ \E outcome \in outcomes, h \in Slots :
       /\ FreeSlot(h)
       /\ LET w1 == [World EXCEPT !.c.backendReady = outcome # "failed"]
              w2 == IF outcome = "ready" THEN w1
                    ELSE Emit(emitStatus([w1 EXCEPT !.c.status.backendError =
                                                      "Unable to start mpv backend"]),
                              "backend.error", [message |-> "Unable to start mpv backend"])
          IN \E w \in restoreSession(w2, h, disk) : Becomes(w, Step("init", Null, "none"))

\* An IPC playback command of one of the given types arrives.
PlaybackCommand(types) ==
  /\ controller.initialized
  /\ \E command \in PlaybackCommands, h \in Slots :
       /\ command.type \in types
       /\ FreeSlot(h)
       /\ \E w \in handlePlaybackCommand(World, h, command) : Becomes(w, Step(command.type, h, "none"))

CtlStart == Start({"ready", "failed"})

CtlPlayTrack == PlaybackCommand({"playTrack"})
CtlPlay == PlaybackCommand({"play", "playPause"})
CtlPause == PlaybackCommand({"pause"})
CtlStop == PlaybackCommand({"stop"})
CtlNextTrack == PlaybackCommand({"next"})
CtlPreviousTrack == PlaybackCommand({"previous"})

CtlBatches == {<<>>, <<1>>, <<2>>, <<1, 2>>}

\* An addPaths command whose paths resolved to one of the batches of files.
AddPaths(batches, maxId) ==
  /\ controller.initialized
  /\ \E files \in batches :
       /\ nextId + Len(files) - 1 <= maxId
       /\ \E w \in addPathsToPlaylist(World, files, NoIndex) :
            Becomes(w, Step("addPaths", Null, "none"))

CtlAddPaths == AddPaths(CtlBatches, MaxIds)

\* A removeTrack or removeTracks command for one of the id sets.
RemoveTracks(idSets) ==
  /\ controller.initialized
  /\ \E trackIds \in idSets, h \in Slots :
       /\ FreeSlot(h)
       /\ \E w \in removeTracksFromPlaylist(World, h, trackIds) :
            Becomes(w, Step("removeTracks", h, "none"))

CtlRemoveTracks == RemoveTracks(SUBSET TrackIds \ {{}})

CtlClear ==
  /\ controller.initialized
  /\ \E h \in Slots :
       /\ FreeSlot(h)
       /\ Becomes(clearPlaylist(World, h), Step("clear", h, "none"))

CtlStateEvent ==
  /\ controller.backendReady
  /\ \E payload \in StatePayloads : Becomes(handleStateEvent(World, payload), Step("state", Null, "none"))

CtlFileLoaded ==
  /\ controller.backendReady
  /\ Becomes(resolveFileLoadedWaiters(World), Step("fileLoaded", Null, "none"))

CtlEndOfFile ==
  /\ controller.backendReady
  /\ \E reason \in {"eof", "stop"}, h \in Slots :
       /\ FreeSlot(h)
       /\ IF reason = "eof"
          THEN \E w \in playNextTrack([World EXCEPT !.hs[h].ctx = "event"], h, TRUE, "event") :
                 Becomes(w, Step("endOfFile", h, "none"))
          ELSE Becomes(World, Step("endOfFile:other", Null, "none"))

CtlErrorEvent ==
  /\ controller.backendReady
  /\ \E message \in BackendErrors : Becomes(handleErrorEvent(World, message), Step("error", Null, "none"))

\* The call an invocation awaits settles with one of the outcomes.
Settle(outcomes) ==
  \E h \in Slots :
    /\ invocations[h].pc \in BackendPcs \cup {"playTrackById:loadForTrack"}
    /\ \E outcome \in outcomes :
         /\ invocations[h].pc = "playTrackById:loadForTrack" => outcome = "ok"
         /\ Becomes(Resume(World, h, outcome), Step("resume:" \o invocations[h].pc, h, outcome))

CtlResume == Settle({"ok"} \cup BackendErrors)

\* waitForFileLoaded's own timer.
CtlFileLoadedTimeout ==
  \E h \in Slots :
    /\ invocations[h].pc = "playTrackById:waitForFileLoaded"
    /\ Becomes(AfterWait([World EXCEPT !.c.fileLoadedWaiters = @ \ {h}], h),
               Step("waitForFileLoaded:timeout", h, "none"))

\* The 3 s timer of setTemporaryStatus.
CtlStatusTimer ==
  /\ controller.statusTimer
  /\ Becomes(emitStatus([World EXCEPT !.c.status.temporaryMessage = "none",
                                      !.c.statusTimer = FALSE]),
             Step("statusTimer", Null, "none"))

CtlPlaybackEmitTimer ==
  /\ controller.playbackEmitTimer
  /\ Becomes(emitPlayback(World), Step("playbackEmitTimer", Null, "none"))

CtlStatusEmitTimer ==
  /\ controller.statusEmitTimer
  /\ Becomes(emitStatus(World), Step("statusEmitTimer", Null, "none"))

\* Navigation: next commands and end-of-file events over a growing playlist.
NavNext ==
  \/ CtlStart
  \/ CtlAddPaths
  \/ CtlNextTrack
  \/ CtlEndOfFile
  \/ CtlResume
  \/ CtlFileLoaded
  \/ CtlFileLoadedTimeout
  \/ CtlStatusTimer

SpecNavigation == CtlInit /\ [][NavNext]_vars

\* Removal: tracks are played, paused and removed.
RemNext ==
  \/ CtlStart
  \/ CtlAddPaths
  \/ CtlPlayTrack
  \/ CtlPause
  \/ CtlRemoveTracks
  \/ CtlResume
  \/ CtlFileLoaded

SpecRemoval == CtlInit /\ [][RemNext]_vars

\* Stopping: tracks are played and stopped and the playlist is cleared.
StopNext ==
  \/ CtlStart
  \/ CtlAddPaths
  \/ CtlPlayTrack
  \/ CtlStop
  \/ CtlClear
  \/ CtlResume
  \/ CtlFileLoaded

SpecStopping == CtlInit /\ [][StopNext]_vars

\* The temporary status messages among the events of a step.
StatusMessages(out) ==
  {out[i].payload.message : i \in {j \in 1..Len(out) : out[j].type = "status.message"}}

(***************************************************************************)
(* C4: with shuffle off and repeat off, a next command or an end-of-file   *)
(* event with reason eof moves the current track to the item one position  *)
(* further in playlist order (the engine being available); when the        *)
(* current track is the last item it leaves the current track as it is,    *)
(* sets the playback state to paused and emits the temporary status "End   *)
(* of playlist" when it came from the end-of-file event and "No next       *)
(* track" when it came from the command; "End of playlist" is emitted by   *)
(* no other step.                                                          *)
(***************************************************************************)
C4_NextStep ==
  LET pl == playlistManager
      currentIndex == FindIndex(pl.items, pl.currentTrackId)
      messages == StatusMessages(emitted')
  IN /\ (/\ lastStep'.kind \in {"next", "endOfFile"}
         /\ ~pl.shuffleEnabled
         /\ pl.repeatMode = "off"
         /\ pl.currentTrackId # Null
         /\ currentIndex >= 0)
        => IF currentIndex + 1 < Len(pl.items)
           THEN /\ controller.backendReady =>
                     /\ playlistManager'.currentTrackId = pl.items[currentIndex + 2].id
                     /\ controller'.playback.currentTrackId = pl.items[currentIndex + 2].id
                /\ messages \cap {"End of playlist", "No next track"} = {}
           ELSE /\ playlistManager'.currentTrackId = pl.currentTrackId
                /\ controller'.playback.state = "paused"
                /\ messages = IF lastStep'.kind = "endOfFile"
                              THEN {"End of playlist"} ELSE {"No next track"}
     /\ "End of playlist" \in messages => lastStep'.kind = "endOfFile"

C4_Navigation == [][C4_NextStep]_vars

\* An end-of-file event has just ended a three-track playlist at its last item.
C4_Witness ==
  /\ lastStep.kind = "endOfFile"
  /\ Len(playlistManager.items) = 3
  /\ playlistManager.currentTrackId = playlistManager.items[3].id
  /\ controller.playback.state = "paused"
  /\ "End of playlist" \in StatusMessages(emitted)

(***************************************************************************)
(* C5: when removeTracks removes the current track and items remain, the   *)
(* playlist's current track becomes the item at the old current index      *)
(* clamped into the remaining list, and the controller starts              *)
(* playTrackById for that track and its path with autoplay, whatever the   *)
(* playback state was; once the engine has accepted the play call, the     *)
(* state is playing.  When no items remain, the playlist has no current    *)
(* track and the controller runs its stop; when the stop has returned,     *)
(* playback currentTrackId is null and the lyrics snapshot is the reset    *)
(* one, and the state is stopped unless the engine rejected the pause.     *)
(***************************************************************************)
C5_RemoveStep ==
  LET pl == playlistManager
      after == playlistManager'
      removed == ItemIds(pl.items) \ ItemIds(after.items)
      h == lastStep'.h
  IN /\ (lastStep'.kind = "removeTracks" /\ pl.currentTrackId # Null /\ pl.currentTrackId \in removed)
        => IF Len(after.items) > 0
           THEN LET index == clampIndex(FindIndex(pl.items, pl.currentTrackId),
                                        Len(after.items) - 1)
                    candidate == after.items[index + 1]
                IN /\ after.currentTrackId = candidate.id
                   /\ controller.backendReady =>
                        /\ controller'.playback.currentTrackId = candidate.id
                        /\ invocations'[h] =
                             [pc |-> "playTrackById:setReplayGain", trackId |-> candidate.id,
                              path |-> candidate.path, autoplay |-> TRUE, seekToSeconds |-> 0,
                              ctx |-> "playlist", cont |-> "return"]
           ELSE /\ after.currentTrackId = Null
                /\ IF controller.backendReady /\ controller.playback.currentTrackId # Null
                   THEN invocations'[h].pc = "stop:pause" /\ invocations'[h].cont = "remove"
                   ELSE /\ controller'.playback.state = "stopped"
                        /\ controller'.playback.currentTrackId = Null
                        /\ controller'.lyrics = NoLyrics
     /\ (/\ lastStep'.kind = "resume:playTrackById:setReplayGain"
         /\ lastStep'.outcome = "ok")
        => /\ invocations'[h].pc = "playTrackById:loadFile"
           /\ invocations'[h].path = invocations[h].path
     /\ (/\ lastStep'.kind = "resume:playTrackById:play"
         /\ lastStep'.outcome = "ok"
         /\ invocations[h].autoplay)
        => controller'.playback.state = "playing"
     /\ (/\ lastStep'.kind \in {"resume:stop:pause", "resume:stop:seekAbsolute"}
         /\ invocations[h].cont = "remove"
         /\ invocations'[h].pc = "idle")
        => /\ controller'.playback.currentTrackId = Null
           /\ controller'.lyrics = NoLyrics
           /\ lastStep'.kind = "resume:stop:seekAbsolute" => controller'.playback.state = "stopped"

C5_RemoveCurrent == [][C5_RemoveStep]_vars

\* The current track of a paused player has just been removed, a track is
\* left, and playTrackById has started for it.
C5_Witness ==
  /\ lastStep.kind = "removeTracks"
  /\ Len(playlistManager.items) >= 1
  /\ invocations[1].pc = "playTrackById:setReplayGain"
  /\ invocations[1].trackId = playlistManager.currentTrackId
  /\ controller.playback.state = "paused"

\* The positions in the events of a step that hold an event of the type.
EventsOf(out, type) == {i \in 1..Len(out) : out[i].type = type}

\* The step just taken belongs to the clear command's invocation.
ClearStep ==
  \/ lastStep'.kind = "clear" /\ Len(playlistManager.items) > 0
  \/ /\ lastStep'.kind \in {"resume:stop:pause", "resume:stop:seekAbsolute"}
     /\ invocations[lastStep'.h].cont = "clear"

(***************************************************************************)
(* C8: when an explicit stop command has run to its end (the engine        *)
(* accepted the pause, or there was nothing to pause), the playback        *)
(* snapshot's currentTrackId is null and the playlist manager's            *)
(* currentTrackId is what it was.                                          *)
(***************************************************************************)
C8_StopStep ==
  LET h == lastStep'.h
  IN (\/ lastStep'.kind = "stop" /\ invocations'[h].pc = "idle"
      \/ lastStep'.kind = "resume:stop:seekAbsolute" /\ invocations[h].cont = "return")
     => /\ controller'.playback.currentTrackId = Null
        /\ playlistManager'.currentTrackId = playlistManager.currentTrackId

C8_StopClearsCurrent == [][C8_StopStep]_vars

(***************************************************************************)
(* C9 as stated: once the clear command has emptied the playlist, no       *)
(* playback snapshot that carries a non-null currentTrackId is emitted.    *)
(***************************************************************************)
C9_StaleStep ==
  (ClearStep /\ Len(playlistManager'.items) = 0)
    => \A i \in EventsOf(emitted', "playback.snapshot") :
         emitted'[i].payload.currentTrackId = Null

C9_ClearStepOk ==
  ClearStep =>
    LET out == emitted'
        h == lastStep'.h
    IN /\ invocations'[h].pc = "idle" => EventsOf(out, "playlist.snapshot") # {}
       /\ \A k \in EventsOf(out, "playlist.snapshot") :
            /\ out[k].at = [currentTrackId |-> Null, lyrics |-> Null, coverArtPath |-> Null]
            /\ \E i \in EventsOf(out, "playback.snapshot") : i > k
            /\ \E j \in EventsOf(out, "lyrics.snapshot") : j > k /\ out[j].payload = NoLyrics
            /\ \A i \in EventsOf(out, "playback.snapshot") :
                 i > k => out[i].payload.currentTrackId = Null

C10_CatchStep ==
  LET h == lastStep'.h
      outcome == lastStep'.outcome
      out == emitted'
  IN (/\ lastStep'.kind \in {"resume:" \o pc : pc \in BackendPcs \ {"stop:seekAbsolute",
                                                                 "playTrackById:seekAbsolute"}}
      /\ outcome # "ok"
      /\ invocations[h].ctx = "playback")
     => /\ IF outcome \in {"error running command", "Error running command"}
           THEN /\ controller'.status.temporaryMessage = outcome
                /\ controller'.status.backendError = controller.status.backendError
                /\ StatusMessages(out) = {outcome}
                /\ EventsOf(out, "backend.error") = {}
           ELSE /\ controller'.status.backendError = outcome
                /\ controller'.status.temporaryMessage = controller.status.temporaryMessage
                /\ StatusMessages(out) = {}
                /\ \E i \in EventsOf(out, "backend.error") : out[i].payload.message = outcome
        /\ invocations'[h].pc = "idle"
        /\ invocations[h].cont = "clear" =>
             /\ controller'.playback.currentTrackId = Null
             /\ EventsOf(out, "playlist.snapshot") # {}

C10_PlaybackErrors == [][C10_CatchStep]_vars

\* loadFile has just rejected with the message in another letter case, and
\* only the temporary status carries it.
C10_Witness ==
  /\ lastStep.kind = "resume:playTrackById:loadFile"
  /\ lastStep.outcome = "Error running command"
  /\ controller.status.temporaryMessage = "Error running command"
  /\ controller.status.backendError = "none"

(***************************************************************************)
(* Metadata loads followed to their end, against a playlist that is added  *)
(* to, removed from, cleared and replaced.  Nothing is played here, so     *)
(* every command but replace runs without suspending.                      *)
(***************************************************************************)
MlStart == Start({"ready"})

\* A folder of MaxLoadIds files is added; a replacement is one file.
MlFolder == [i \in 1..MaxLoadIds |-> i]

MlAddPaths == AddPaths({MlFolder}, MaxLoadIds)

MlRemoveTrack == RemoveTracks({{id} : id \in LoadIds})

\* A replaceFromPath command (playAfterReplace among the given flags).
ReplaceFromPath(flags) ==
  /\ controller.initialized
  /\ \E playAfterReplace \in flags, h \in Slots :
       /\ FreeSlot(h)
       /\ Becomes(replacePlaylistFromPath(World, h, playAfterReplace),
                  Step("replaceFromPath", h, "none"))

MlReplaceFromPath == ReplaceFromPath({FALSE})

\* resolveAudioPaths returns to a replaceFromPath command.
ReplaceFilesResolved(batches, maxId) ==
  \E h \in Slots, files \in batches \cup {<<>>} :
    /\ invocations[h].pc = "replaceFromPath:resolveAudioPaths"
    /\ nextId + Len(files) - 1 <= maxId
    /\ \E w \in ReplaceResolved(World, h, files) :
         Becomes(w, Step("resume:replaceFromPath:resolveAudioPaths", h, "ok"))

MlReplaceResolved == ReplaceFilesResolved({<<1>>}, MaxLoadIds + 1)

\* getMetadata returns to the load of task t.
MlExtracted ==
  \E t \in 1..Len(tasks) :
    /\ tasks[t].stage = "extracting"
    /\ Becomes(MetadataExtracted(World, t), Step("extracted", t, "none"))

\* runTask(task) has settled.
MlTaskSettled ==
  \E t \in 1..Len(tasks) :
    /\ tasks[t].where = "running"
    /\ tasks[t].stage \in {"returned", "skipped"}
    /\ Becomes(MetadataTaskSettled(World, t), Step("settled", t, "none"))

MlNext ==
  \/ MlStart
  \/ MlAddPaths
  \/ MlRemoveTrack
  \/ CtlClear
  \/ MlReplaceFromPath
  \/ MlReplaceResolved
  \/ MlExtracted
  \/ MlTaskSettled

SpecMetaLoad == CtlInit /\ [][MlNext]_vars

\* The track id is in the playlist and maps to the path.
C7_Maps(pl, trackId, filePath) ==
  \E i \in 1..Len(pl.items) : pl.items[i].id = trackId /\ pl.items[i].path = filePath

(***************************************************************************)
(* C7: when the extraction of a load completes, its result is written to   *)
(* the playlist item and a playlist.rowMetaUpdated event is emitted if the *)
(* track id is then in the playlist with the same path; otherwise the      *)
(* playlist is left as it is and nothing is emitted.  A load starts its    *)
(* extraction only if its track id maps to its path when the task starts,  *)
(* and returns at once if it does not.  No other step emits the event.     *)
(***************************************************************************)
C7_LoadStep ==
  /\ lastStep'.kind = "extracted" =>
       LET task == tasks[lastStep'.h]
           rows == EventsOf(emitted', "playlist.rowMetaUpdated")
       IN IF C7_Maps(playlistManager, task.trackId, task.filePath)
          THEN /\ playlistManager' = updateMetadata(playlistManager, task.trackId,
                                                    getMetadata(task.filePath))
               /\ getItemById(playlistManager', task.trackId).metadata = getMetadata(task.filePath)
               /\ Cardinality(rows) = 1
               /\ \A i \in rows : emitted'[i].payload.trackId = task.trackId
          ELSE /\ playlistManager' = playlistManager
               /\ emitted' = <<>>
  /\ lastStep'.kind # "extracted" => EventsOf(emitted', "playlist.rowMetaUpdated") = {}
  /\ \A t \in 1..Len(tasks') :
       (tasks'[t].where = "running" /\ (t > Len(tasks) \/ tasks[t].where = "queued"))
         => tasks'[t].stage = IF C7_Maps(playlistManager', tasks'[t].trackId, tasks'[t].filePath)
                              THEN "extracting" ELSE "skipped"
  /\ \A t \in 1..Len(tasks) :
       tasks[t].stage = "skipped" => tasks'[t].stage = "skipped"

C7_StaleLoads == [][C7_LoadStep]_vars

\* An extraction has just completed for a track that is gone, and another
\* load was started for a track that was gone already.
C7_Witness ==
  /\ lastStep.kind = "extracted"
  /\ emitted = <<>>
  /\ tasks[lastStep.h].trackId \notin ItemIds(playlistManager.items)
  /\ \E t \in 1..Len(tasks) : tasks[t].stage = "skipped"
  /\ \E i \in 1..Len(playlistManager.items) : playlistManager.items[i].metadata.trackNumber = 1

(***************************************************************************)
(* Error status: playback commands that fail or succeed, engine error      *)
(* events, and the expiry of the temporary status.                         *)
(***************************************************************************)
ErrAddPaths == AddPaths({<<1>>}, MaxIds)

ErrNext ==
  \/ CtlStart
  \/ ErrAddPaths
  \/ CtlPlayTrack
  \/ CtlPause
  \/ CtlErrorEvent
  \/ CtlResume
  \/ CtlFileLoaded
  \/ CtlStatusTimer

SpecErrors == CtlInit /\ [][ErrNext]_vars

\* An awaited engine call has been accepted and the playback command that
\* made it has returned without reporting a failure.
C11_Completed ==
  /\ lastStep'.h \in Slots
  /\ lastStep'.outcome = "ok"
  /\ invocations[lastStep'.h].ctx = "playback"
  /\ invocations[lastStep'.h].pc # "idle"
  /\ invocations'[lastStep'.h].pc = "idle"
  /\ StatusMessages(emitted') = {}

(***************************************************************************)
(* C11: a backendError that is set stays set in every step that is not the *)
(* successful completion of a playback command, the expiry of the          *)
(* temporary status included, and the successful completion of a playback  *)
(* command sets backendError to null.                                      *)
(***************************************************************************)
C11_ErrorStep ==
  /\ (controller.status.backendError # "none" /\ ~C11_Completed)
       => controller'.status.backendError = controller.status.backendError
            \/ lastStep'.kind = "error"
            \/ (lastStep'.outcome \notin {"ok", "none"})
  /\ C11_Completed => controller'.status.backendError = "none"

C11_StickyUntilSuccess == [][C11_ErrorStep]_vars

(***************************************************************************)
(* The life cycle of the engine transport: start, commands, the exit of    *)
(* the engine process, the close of the socket, and stop.                  *)
(***************************************************************************)
\* The 'exit' handler of a spawned process (the running one, or one that
\* stop() has killed).
TrProcessExit ==
  /\ backend.processes > 0
  /\ LET after == StopRace([backend EXCEPT !.connected = FALSE, !.pending = {},
                                           !.processes = @ - 1],
                           rejectAllPending(backend, commands,
                                            "mpv exited before replying to pending command(s)."))
     IN backend' = after.backend /\ commands' = after.commands
  /\ TrStepped("exit", Null,
               IF backend.shuttingDown THEN <<>> ELSE <<ErrorEvent("mpv exited unexpectedly")>>)
  /\ UNCHANGED <<plVars, mqVars>>

\* The 'close' handler of a socket: of the connected one when the engine
\* closes it, or of one that stop() has destroyed.
TrSocketClose ==
  \E which \in {"open", "destroyed"} :
    /\ which = "open" => backend.socketOpen
    /\ which = "destroyed" => backend.destroyedSockets > 0
    /\ LET closed == IF which = "open"
                     THEN [backend EXCEPT !.socketOpen = FALSE]
                     ELSE [backend EXCEPT !.destroyedSockets = @ - 1]
           after == StopRace([closed EXCEPT !.connected = FALSE, !.pending = {}],
                             rejectAllPending(backend, commands, "mpv IPC socket closed."))
       IN backend' = after.backend /\ commands' = after.commands
    /\ TrStepped("close", Null, <<>>)
    /\ UNCHANGED <<plVars, mqVars>>

\* stop() up to its first await: with a connection it sends quit and waits
\* for the race, without one it goes straight on.
TrStop ==
  /\ backend.stopPc = "idle"
  /\ LET b == [backend EXCEPT !.shuttingDown = TRUE]
         after == IF ~b.connected
                  THEN StopRest(b, commands)
                  ELSE IF ~IsConnected(b)
                  THEN StopRest(b, Append(commands, NotConnected))
                  ELSE [backend |-> [b EXCEPT !.nextRequestId = NextRequestId(b),
                                              !.stopPc = "race",
                                              !.quit = Len(commands) + 1],
                        commands |-> Append(commands, Writing(b.nextRequestId))]
     IN backend' = after.backend /\ commands' = after.commands
  /\ TrStepped("stop", Null, <<>>)
  /\ UNCHANGED <<plVars, mqVars>>

\* The 500 ms timer of the race fires before quit has settled.
TrStopTimer ==
  /\ backend.stopPc = "race"
  /\ LET after == StopRest(backend, commands)
     IN backend' = after.backend /\ commands' = after.commands
  /\ TrStepped("stop:timer", Null, <<>>)
  /\ UNCHANGED <<plVars, mqVars>>

\* removeSocketIfNeeded settles and stop() returns.
TrStopped ==
  /\ backend.stopPc = "unlink"
  /\ backend' = [backend EXCEPT !.stopPc = "idle"]
  /\ UNCHANGED commands
  /\ TrStepped("stopped", Null, <<>>)
  /\ UNCHANGED <<plVars, mqVars>>

\* Commands sent by callers next to the quit of stop(), and the answers the
\* engine gives to the commands it was sent.
MaxLcCommands == 2

LcSendCommand == SendCommand(MaxLcCommands)

LcResponse ==
  Response({[request_id |-> r, error |-> e, data |-> "a"] :
              r \in 1..(backend.nextRequestId - 1), e \in {"none", "failed"}})

LcNext ==
  \/ TrStart
  \/ LcSendCommand
  \/ TrWritten
  \/ LcResponse
  \/ TrProcessExit
  \/ TrSocketClose
  \/ TrStop
  \/ TrStopTimer
  \/ TrStopped

SpecLifecycle == TrInit /\ [][LcNext]_vars

(***************************************************************************)
(* C13: when the exit handler of the engine process or the close handler   *)
(* of the socket runs, every command in the pending map is rejected and    *)
(* the map is left empty; if the transport is not shutting down the        *)
(* handler emits an error event, and if it is shutting down it emits none. *)
(***************************************************************************)
C13_DisconnectStep ==
  lastStep'.kind \in {"exit", "close"} =>
    /\ backend'.pending = {}
    /\ \A h \in backend.pending :
         /\ commands'[h.command].phase = "rejected"
         /\ commands'[h.command].settles = 1
    /\ IF backend.shuttingDown
       THEN emitted' = <<>>
       ELSE \E i \in 1..Len(emitted') : emitted'[i].type = "error"

C13_Disconnects == [][C13_DisconnectStep]_vars

(***************************************************************************)
(* C14: a sendCommand made while the transport is not connected is         *)
(* rejected in the same step with the connection error: it takes no        *)
(* request id, writes nothing, adds nothing to the pending map and arms no *)
(* timer.  The transport is not connected before the first start, once     *)
(* stop() has passed its race, and after the exit handler or the close     *)
(* handler has run.                                                        *)
(***************************************************************************)
C14_SendStep ==
  /\ (lastStep'.kind = "sendCommand" /\ (~backend.connected \/ ~backend.socket))
       => /\ commands' = Append(commands, NotConnected)
          /\ backend' = backend
  /\ lastStep'.kind \in {"exit", "close", "stop:timer", "stopped"} => ~backend'.connected
  /\ backend'.stopPc = "unlink" => ~backend'.connected
  /\ backend'.starts = 0 => ~backend'.connected
  /\ \A k \in 1..Len(commands') :
       commands'[k].result = "not connected"
         => /\ commands'[k].requestId = Null
            /\ ~commands'[k].timer
            /\ \A h \in backend'.pending : h.command # k

C14_NotConnected == [][C14_SendStep]_vars

\* A command has just been refused after the engine process exited, with
\* the socket still open and another command sent before the exit.
C14_Witness ==
  /\ lastStep.kind = "sendCommand"
  /\ commands[Len(commands)] = NotConnected
  /\ backend.mpvProcess
  /\ backend.socket
  /\ backend.socketOpen
  /\ backend.processes = 0
  /\ Len(commands) > 1
  /\ backend.nextRequestId = 2

\* The race timer and the removal of the socket file do not wait for the
\* engine.
SpecLifecycleFair ==
  SpecLifecycle /\ WF_vars(TrStopTimer) /\ WF_vars(TrStopped)

\* stop() has passed its race in this step.
C15_Passed == backend.stopPc \in {"idle", "race"} /\ backend'.stopPc = "unlink"

C15_StopStep ==
  /\ C15_Passed =>
       \A h \in backend.pending :
         /\ commands'[h.command].phase \in {"resolved", "rejected"}
         /\ commands'[h.command].phase = "resolved" =>
              (h.command = backend.quit /\ lastStep'.kind = "response")
         /\ commands'[h.command].settles = 1
  /\ (backend'.stopPc = "unlink" \/ lastStep'.kind = "stopped") =>
       /\ ~backend'.connected
       /\ ~backend'.mpvProcess
       /\ ~backend'.socket
       /\ backend'.pending = {}
       /\ backend'.shuttingDown
  /\ (/\ lastStep'.kind = "stop"
      /\ ~backend.connected /\ ~backend.mpvProcess /\ ~backend.socket
      /\ backend.pending = {} /\ backend.shuttingDown)
       => /\ commands' = commands
          /\ backend' = [backend EXCEPT !.stopPc = "unlink"]
  /\ lastStep'.kind = "stopped" => (commands' = commands /\ backend'.stopPc = "idle")

SelNext ==
  \/ PlAddPaths
  \/ PlReplaceWithPaths
  \/ PlClear
  \/ PlRemoveTracks
  \/ PlMoveTracks
  \/ PlSortBy
  \/ PlSetCurrentTrack
  \/ PlSetSelectedTrack
  \/ PlSetSelectedTracks

SpecSelection == PlInit /\ [][SelNext]_vars

\* seq lists some of the ids of items, each once, in the order of items.
C16_InItemOrder(seq, items) ==
  /\ \A i \in 1..Len(seq) : seq[i] \in ItemIds(items)
  /\ \A i, j \in 1..Len(seq) :
       i < j => FindIndex(items, seq[i]) < FindIndex(items, seq[j])

(***************************************************************************)
(* C16: selectedTrackIds holds only ids of items of the playlist, each at  *)
(* most once and in the order of items; selectedTrackId is null exactly    *)
(* when selectedTrackIds is empty, and is otherwise one of its members.    *)
(***************************************************************************)
C16_SelectionWellFormed ==
  /\ C16_InItemOrder(playlistManager.selectedTrackIds, playlistManager.items)
  /\ (playlistManager.selectedTrackId = Null) <=> (Len(playlistManager.selectedTrackIds) = 0)
  /\ playlistManager.selectedTrackId # Null =>
       playlistManager.selectedTrackId \in Range(playlistManager.selectedTrackIds)

\* Two items are selected, the primary one is the second of them, and the
\* items are no longer in the order in which they were added.
C16_Witness ==
  /\ Len(playlistManager.selectedTrackIds) = 2
  /\ playlistManager.selectedTrackId = playlistManager.selectedTrackIds[2]
  /\ Len(playlistManager.items) = 3
  /\ playlistManager.items[1].id > playlistManager.items[2].id
  /\ nextId > MaxIds

(***************************************************************************)
(* getNextTrackId and getPreviousTrackId applied to playlists of up to     *)
(* MaxIds items in any order, with any current track, repeat mode and      *)
(* shuffle setting.                                                        *)
(***************************************************************************)
\* The playlists the calls are applied to.
OrdItems ==
  UNION {{[i \in 1..Len(ids) |->
             [id |-> ids[i], path |-> ((ids[i] - 1) % MaxPaths) + 1,
              metadata |-> emptyMetadata(((ids[i] - 1) % MaxPaths) + 1)]] : ids \in Perms(S)}
         : S \in SUBSET TrackIds}

OrdPlaylists ==
  UNION {UNION {refreshShuffleOrder([NewPlaylist EXCEPT !.items = its,
                                                       !.currentTrackId = cur,
                                                       !.repeatMode = mode,
                                                       !.shuffleEnabled = sh])
                  : cur \in ItemIds(its) \cup {Null},
                    mode \in {"off", "all", "one"},
                    sh \in BOOLEAN}
         : its \in OrdItems}

OrdInit ==
  /\ playlistManager \in OrdPlaylists
  /\ nextId = MaxIds + 1
  /\ MqIdle
  /\ TrIdle
  /\ CtlIdle

OrdGetNextTrackId ==
  \E call \in NextTrackCalls(playlistManager) :
    /\ playlistManager' = call.pm
    /\ lastStep' = [kind |-> "getNextTrackId", h |-> call.id, outcome |-> "none"]
    /\ UNCHANGED <<nextId, controller, invocations, emitted, disk, mqVars, trVars>>

OrdGetPreviousTrackId ==
  \E call \in PreviousTrackCalls(playlistManager) :
    /\ playlistManager' = call.pm
    /\ lastStep' = [kind |-> "getPreviousTrackId", h |-> call.id, outcome |-> "none"]
    /\ UNCHANGED <<nextId, controller, invocations, emitted, disk, mqVars, trVars>>

OrdNext ==
  \/ OrdGetNextTrackId
  \/ OrdGetPreviousTrackId

SpecOrder == OrdInit /\ [][OrdNext]_vars

(***************************************************************************)
(* C17: with shuffle off and repeat mode not "one", a call with the        *)
(* current track at position i of the items returns the item after it      *)
(* (getNextTrackId) or before it (getPreviousTrackId); past the last item  *)
(* getNextTrackId returns the first item under repeat "all" and null under *)
(* "off", before the first item getPreviousTrackId returns the last item   *)
(* under "all" and null under "off"; with no current track and a playlist  *)
(* that is not empty both return the first item.                           *)
(***************************************************************************)
C17_CallStep ==
  LET pl == playlistManager
      n == Len(pl.items)
      i == FindIndex(pl.items, pl.currentTrackId) + 1
      returned == lastStep'.h
  IN (~pl.shuffleEnabled /\ pl.repeatMode # "one" /\ n > 0) =>
       IF pl.currentTrackId = Null
       THEN returned = pl.items[1].id
       ELSE /\ lastStep'.kind = "getNextTrackId" =>
                 returned = IF i < n THEN pl.items[i + 1].id
                            ELSE IF pl.repeatMode = "all" THEN pl.items[1].id ELSE Null
            /\ lastStep'.kind = "getPreviousTrackId" =>
                 returned = IF i > 1 THEN pl.items[i - 1].id
                            ELSE IF pl.repeatMode = "all" THEN pl.items[n].id ELSE Null

C17_Linear == [][C17_CallStep]_vars

\* getNextTrackId at the last of three items under repeat "all" has
\* returned the first item.
C17_Witness ==
  /\ lastStep.kind = "getNextTrackId"
  /\ Len(playlistManager.items) = 3
  /\ ~playlistManager.shuffleEnabled
  /\ playlistManager.repeatMode = "all"
  /\ playlistManager.currentTrackId = playlistManager.items[3].id
  /\ lastStep.h = playlistManager.items[1].id

(***************************************************************************)
(* C18: under repeat "one" with a current track set, getNextTrackId and    *)
(* getPreviousTrackId return the current track id, wherever it stands and  *)
(* whether shuffle is on or off, and leave the playlist as it was.         *)
(***************************************************************************)
C18_CallStep ==
  (playlistManager.repeatMode = "one" /\ playlistManager.currentTrackId # Null) =>
    /\ lastStep'.h = playlistManager.currentTrackId
    /\ playlistManager' = playlistManager

C18_RepeatOne == [][C18_CallStep]_vars

\* getPreviousTrackId under repeat "one" with shuffle on has returned the
\* current track, which is the last of three items.
C18_Witness ==
  /\ lastStep.kind = "getPreviousTrackId"
  /\ playlistManager.repeatMode = "one"
  /\ playlistManager.shuffleEnabled
  /\ Len(playlistManager.items) = 3
  /\ playlistManager.currentTrackId = playlistManager.items[3].id
  /\ lastStep.h = playlistManager.currentTrackId


(***************************************************************************)
(* The session: the controller of a first launch serves commands and       *)
(* saves its session at shutdown; the next launch restores it in init().   *)
(* Two launches are followed: the second one up to the end of its init().  *)
(***************************************************************************)
SsFirstLaunch == ~disk.session.saved

SsAddPaths == SsFirstLaunch /\ AddPaths({<<1>>, <<2, 1>>}, MaxIds)

\* The engine reports a position or a volume.  It reports `pause` only when
\* that changes, and restoreSession makes no call that unpauses it: the one
\* report of an unpaused engine, the answer to observe_property, precedes
\* the replies start() awaits.
SsStateEvent ==
  /\ SsFirstLaunch
  /\ controller.backendReady
  /\ \E payload \in VolumePayloads
                      \cup {[keys |-> {"timePosSec"}, paused |-> FALSE, timePosSec |-> 1]} :
       Becomes(handleStateEvent(World, payload), Step("state", Null, "none"))

SsCycleRepeat ==
  /\ SsFirstLaunch
  /\ controller.initialized
  /\ Becomes(cycleRepeat(World), Step("cycleRepeat", Null, "none"))

SsToggleShuffle ==
  /\ SsFirstLaunch
  /\ controller.initialized
  /\ \E w \in toggleShuffleCommand(World) : Becomes(w, Step("toggleShuffle", Null, "none"))

SsPlay == SsFirstLaunch /\ PlaybackCommand({"play"})

SsResume == Settle({"ok", "mpv command timed out"})

\* The sets of audio files the next launch can find.
SsFileSets == {Paths, {1}}

\* shutdown() saves the session and the application ends; files may vanish
\* before the next launch constructs a fresh controller.
SsShutdown ==
  /\ SsFirstLaunch
  /\ controller.initialized
  /\ \E h \in Slots : FreeSlot(h)
  /\ \E files \in SsFileSets :
       disk' = [session |-> persistSession(World), files |-> files]
  /\ playlistManager' = NewPlaylist
  /\ nextId' = 1
  /\ metadataQueue' = NewMetadataLoadQueue(ControllerConcurrency)
  /\ tasks' = <<>>
  /\ controller' = NewController
  /\ invocations' = [h \in Slots |-> IdleHandler]
  /\ emitted' = <<>>
  /\ lastStep' = Step("shutdown", Null, "none")
  /\ UNCHANGED <<calls, trVars>>

SsNext ==
  \/ CtlStart
  \/ SsAddPaths
  \/ SsPlay
  \/ SsResume
  \/ CtlFileLoaded
  \/ SsStateEvent
  \/ SsCycleRepeat
  \/ SsToggleShuffle
  \/ SsShutdown

SpecSession == CtlInit /\ [][SsNext]_vars


\* The engine calls that start playback.
C19_PlayPcs == {"playTrackById:play", "play:play", "playPause:togglePause"}

\* The track restoreSession looks for: the saved current track's path, if the
\* restored playlist still has it.
C19_SavedTrackKept ==
  /\ disk.session.saved
  /\ disk.session.currentTrackPath # Null
  /\ \E i \in 1..Len(playlistManager'.items) :
       playlistManager'.items[i].path = disk.session.currentTrackPath

C19_RestoreStep ==
  \* until init() has returned, playback is never playing and no invocation
  \* awaits a call that starts playback
  /\ ~controller'.initialized =>
       /\ controller'.playback.state # "playing"
       /\ \A h \in Slots : invocations'[h].pc \notin C19_PlayPcs
  /\ (~controller.initialized /\ controller'.initialized) =>
       controller'.playback.state # "playing"
  \* ready and the saved track kept: restoreSession starts loading that track,
  \* paused, at the saved position
  /\ (lastStep'.kind = "init" /\ controller'.backendReady /\ C19_SavedTrackKept) =>
       \E h \in Slots :
         /\ invocations'[h].pc = "playTrackById:setReplayGain"
         /\ invocations'[h].ctx = "restore"
         /\ invocations'[h].path = disk.session.currentTrackPath
         /\ ~invocations'[h].autoplay
         /\ invocations'[h].seekToSeconds = disk.session.currentTrackPositionSec
         /\ controller'.playback.currentTrackId = invocations'[h].trackId
         /\ playlistManager'.currentTrackId = invocations'[h].trackId
         /\ getItemById(playlistManager', invocations'[h].trackId).path =
              disk.session.currentTrackPath
  \* the restore's invocation keeps its track and position from call to call,
  \* loads the file and seeks only to a position above 0
  /\ \A h \in Slots :
       (invocations[h].ctx = "restore" /\ invocations'[h].pc # "idle") =>
         /\ invocations'[h].trackId = invocations[h].trackId
         /\ invocations'[h].path = invocations[h].path
         /\ invocations'[h].seekToSeconds = invocations[h].seekToSeconds
         /\ ~invocations'[h].autoplay
         /\ (lastStep'.kind = "resume:playTrackById:setReplayGain") =>
              invocations'[h].pc = "playTrackById:loadFile"
  \* once the engine accepted the pause, the track is paused at the saved
  \* position
  /\ \A h \in Slots :
       (/\ invocations[h].ctx = "restore"
        /\ lastStep'.kind = "resume:playTrackById:pause"
        /\ lastStep'.outcome = "ok") =>
         /\ controller'.playback.state = "paused"
         /\ controller'.playback.currentTimeSec = disk.session.currentTrackPositionSec
         /\ controller'.playback.currentTrackId = invocations[h].trackId
  \* and it still is when restoreSession returns
  /\ \A h \in Slots :
       (/\ invocations[h].ctx = "restore"
        /\ invocations[h].trackId # Null
        /\ lastStep'.kind = "resume:restore:setVolume"
        /\ lastStep'.outcome = "ok") =>
         /\ controller'.initialized
         /\ controller'.playback.state = "paused"
         /\ controller'.playback.currentTrackId = invocations[h].trackId
  \* not ready: init() returns at once with nothing loaded
  /\ (lastStep'.kind = "init" /\ ~controller'.backendReady) =>
       /\ controller'.initialized
       /\ controller'.playback.currentTrackId = Null
       /\ playlistManager'.currentTrackId = Null
       /\ controller'.playback.state = "stopped"
       /\ \A h \in Slots : invocations'[h].pc = "idle"

C20_PathsOf(its) == [i \in 1..Len(its) |-> its[i].path]

\* The saved paths whose files are still there, in the saved order.
RECURSIVE C20_Remaining(_, _)
C20_Remaining(paths, files) ==
  IF Len(paths) = 0 THEN <<>>
  ELSE (IF Head(paths) \in files THEN <<Head(paths)>> ELSE <<>>)
         \o C20_Remaining(Tail(paths), files)

C20_RoundTripStep ==
  \* persistSession writes the playlist's paths in order, the repeat mode, the
  \* shuffle flag and the volume of the running controller
  /\ lastStep'.kind = "shutdown" =>
       /\ disk'.session.saved
       /\ disk'.session.playlistPaths = C20_PathsOf(playlistManager.items)
       /\ disk'.session.repeatMode = playlistManager.repeatMode
       /\ disk'.session.repeatMode = controller.playback.repeatMode
       /\ disk'.session.shuffleEnabled = playlistManager.shuffleEnabled
       /\ disk'.session.shuffleEnabled = controller.playback.shuffleEnabled
       /\ disk'.session.volumePercent = controller.playback.volumePercent
  \* restoreSession in the fresh controller of the next launch brings them
  \* back, without the paths whose files are gone
  /\ (lastStep'.kind = "init" /\ disk.session.saved) =>
       /\ playlistManager = NewPlaylist
       /\ C20_PathsOf(playlistManager'.items) =
            C20_Remaining(disk.session.playlistPaths, disk.files)
       /\ disk.files = Paths =>
            C20_PathsOf(playlistManager'.items) = disk.session.playlistPaths
       /\ playlistManager'.repeatMode = disk.session.repeatMode
       /\ controller'.playback.repeatMode = disk.session.repeatMode
       /\ playlistManager'.shuffleEnabled = disk.session.shuffleEnabled
       /\ controller'.playback.shuffleEnabled = disk.session.shuffleEnabled
       /\ controller'.playback.volumePercent = disk.session.volumePercent
       /\ disk' = disk

\* C20: persistSession followed by restoreSession into a fresh controller
\* reproduces the ordered list of playlist paths, duplicates included, the
\* repeat mode, the shuffle flag and the volume; paths whose files no longer
\* exist are dropped and the others keep their relative order.
C20_RoundTrip == [][C20_RoundTripStep]_vars

\* A restore of a playlist with a repeated path, of which one other path was
\* dropped, with repeat, shuffle and volume away from their defaults.
C20_Witness ==
  /\ lastStep.kind = "init"
  /\ disk.session.playlistPaths = <<1, 2, 1>>
  /\ C20_PathsOf(playlistManager.items) = <<1, 1>>
  /\ controller.playback.repeatMode = "one"
  /\ controller.playback.shuffleEnabled
  /\ controller.playback.volumePercent = 130


(***************************************************************************)
(* The metadata queue: its workers and its lanes.                          *)
(***************************************************************************)
\* The tasks whose runTask call has started and not yet settled.
C22_Running(ts) == {t \in 1..Len(ts) : ts[t].where = "running"}

\* The tasks waiting in a lane.
C22_Waiting(q) == Range(q.highQueue) \cup Range(q.normalQueue)

C22_Bounded ==
  /\ metadataQueue.concurrency >= 1
  /\ Cardinality(C22_Running(tasks)) <= metadataQueue.concurrency
  /\ metadataQueue.workerCount = Cardinality(C22_Running(tasks))
  /\ \A t \in 1..Len(tasks) : tasks[t].where = "queued" <=> t \in C22_Waiting(metadataQueue)

C22_WaitStep ==
  \* a task created while every worker is busy waits in a lane
  /\ (Len(tasks') > Len(tasks) /\ metadataQueue.workerCount = metadataQueue.concurrency) =>
       /\ tasks'[Len(tasks')].where = "queued"
       /\ Len(tasks') \in C22_Waiting(metadataQueue')
  \* a waiting task is started only in the step in which a running task
  \* finishes
  /\ \A t \in 1..Len(tasks) :
       (tasks[t].where = "queued" /\ tasks'[t].where = "running") =>
         /\ lastStep'.kind = "taskFinished"
         /\ tasks[lastStep'.h].where = "running"
         /\ tasks'[lastStep'.h].where # "running"

\* C22: the number of metadata tasks that have started and not finished never
\* exceeds the configured concurrency, which is at least 1; an enqueue that
\* finds every worker busy leaves its task in a lane, and a task waiting in
\* a lane is started only when a running task finishes.
C22_ConcurrencyBound == [](C22_Bounded) /\ [][C22_WaitStep]_vars

\* Two workers are busy and a third task waits.
C22_Witness ==
  /\ metadataQueue.concurrency = 2
  /\ metadataQueue.workerCount = 2
  /\ Len(metadataQueue.normalQueue) + Len(metadataQueue.highQueue) = 1
  /\ ~metadataQueue.shuttingDown


\* The tasks a step starts.
C23_Started == {t \in 1..Len(tasks') :
                  tasks'[t].where = "running" /\ (t > Len(tasks) \/ tasks[t].where = "queued")}

\* Lane `after` holds what is left of lane `before`, in the same order, then
\* the tasks that entered it in the step.
C23_KeepsOrder(before, after) ==
  LET Stays(t) == t \in Range(after)
      WasThere(t) == t \in Range(before)
      stayed == SelectSeq(before, Stays)
  IN /\ SelectSeq(after, WasThere) = stayed
     /\ SubSeq(after, 1, Len(stayed)) = stayed

\* Lane `after` has lost nothing of `before` but its head, if that.
C23_OnlyHeadLeaves(before, after) ==
  \A i \in 2..Len(before) : before[i] \in Range(after)

C23_StartStep ==
  /\ Cardinality(C23_Started) <= 1
  /\ \A t \in C23_Started :
       IF t <= Len(tasks)
       THEN \* a waiting task: the head of the high lane, or of the normal lane
            \* when the high lane is empty
            IF Len(metadataQueue.highQueue) > 0
            THEN /\ t = Head(metadataQueue.highQueue)
                 /\ metadataQueue'.normalQueue = metadataQueue.normalQueue
            ELSE t = Head(metadataQueue.normalQueue)
       ELSE \* the task of this enqueue: nothing was waiting
            /\ metadataQueue.highQueue = <<>>
            /\ metadataQueue.normalQueue = <<>>
  \* the lanes are queues: tasks enter at the end, and the only task that
  \* leaves a lane for a worker is its head
  /\ C23_KeepsOrder(metadataQueue.highQueue, metadataQueue'.highQueue)
  /\ C23_KeepsOrder(metadataQueue.normalQueue, metadataQueue'.normalQueue)
  /\ lastStep'.kind = "taskFinished" =>
       /\ C23_OnlyHeadLeaves(metadataQueue.highQueue, metadataQueue'.highQueue)
       /\ C23_OnlyHeadLeaves(metadataQueue.normalQueue, metadataQueue'.normalQueue)

\* C23: a task the queue starts is the oldest task of the high lane if that
\* lane is not empty, and the oldest of the normal lane only when the high
\* lane is empty; within a lane tasks start in the order in which they
\* entered it.
C23_LaneOrder == [][C23_StartStep]_vars

\* A high-lane task has been started while an older normal-lane task waits.
C23_Witness ==
  /\ lastStep.kind = "taskFinished"
  /\ \E t, u \in 1..Len(tasks) :
       /\ t < u
       /\ tasks[u].where = "running"
       /\ tasks[t].where = "queued"
       /\ metadataQueue.normalQueue = <<t>>
  /\ metadataQueue.concurrency = 1


\* The number of lanes task t waits in, counting repetitions.
C24_Places(q, t) ==
  Cardinality({i \in 1..Len(q.highQueue) : q.highQueue[i] = t})
    + Cardinality({i \in 1..Len(q.normalQueue) : q.normalQueue[i] = t})

C24_PromoteStep ==
  (/\ lastStep'.kind = "enqueue"
   /\ lastStep'.outcome = "high"
   /\ ~metadataQueue.shuttingDown
   /\ metadataQueue.inFlightByTrack[lastStep'.h] # Null) =>
    LET t == metadataQueue.inFlightByTrack[lastStep'.h]
        Other(u) == u # t
    IN /\ tasks' = tasks
       /\ metadataQueue'.workerCount = metadataQueue.workerCount
       /\ IF t \in Range(metadataQueue.normalQueue)
          THEN /\ metadataQueue'.normalQueue = SelectSeq(metadataQueue.normalQueue, Other)
               /\ metadataQueue'.highQueue = Append(metadataQueue.highQueue, t)
               /\ Len(metadataQueue'.normalQueue) + Len(metadataQueue'.highQueue)
                    = Len(metadataQueue.normalQueue) + Len(metadataQueue.highQueue)
               /\ C24_Places(metadataQueue', t) = 1
          ELSE /\ metadataQueue'.normalQueue = metadataQueue.normalQueue
               /\ metadataQueue'.highQueue = metadataQueue.highQueue

\* C24: a high-priority enqueue for a track whose task waits in the normal
\* lane moves that task to the end of the high lane: the number of queued
\* tasks stays the same and the task is in exactly one lane; if the task is
\* already in the high lane or running, the lanes do not change.
C24_Promotion == [][C24_PromoteStep]_vars

\* A task has been promoted behind a task that was already in the high lane.
C24_Witness ==
  /\ lastStep.kind = "enqueue"
  /\ lastStep.outcome = "high"
  /\ Len(metadataQueue.highQueue) = 2
  /\ metadataQueue.highQueue[2] < metadataQueue.highQueue[1]
  /\ tasks[metadataQueue.highQueue[2]].trackId = lastStep.h


\* The queue up to its last new task.
LvEnqueue == Len(tasks) < MaxEnqueues /\ MqEnqueue

LvNext ==
  \/ LvEnqueue
  \/ MqTaskFinished
  \/ MqPromiseSettled
  \/ MqShutdown

\* Every runTask call that has started settles, and the microtasks of a
\* resolved promise run.
SpecQueueFair ==
  MqInit /\ [][LvNext]_vars /\ WF_vars(MqTaskFinished) /\ WF_vars(MqPromiseSettled)

\* No completion is ever rejected, and a call made after shutdown gets a
\* completion that is resolved from the start.
C25_NeverRejects ==
  /\ \A t \in 1..Len(tasks) : tasks[t].where \in {"queued", "running", "resolved", "settled"}
  /\ \A c \in calls : c.task = Null => CallResolved(c)

\* Task t exists and the completion its callers hold has resolved.
C25_Settled(t) == Len(tasks) >= t /\ tasks[t].where = "settled"

\* C25: every completion enqueue returns eventually resolves and never
\* rejects, provided every started task function call settles: a queued
\* task is started or resolved by shutdown, and a task running at shutdown
\* resolves its callers when it finishes.
C25_CompletionsResolve ==
  /\ []C25_NeverRejects
  /\ \A t \in 1..MaxEnqueues : (Len(tasks) >= t) ~> C25_Settled(t)
  /\ \A t \in 1..MaxEnqueues :
       (Len(tasks) >= t /\ tasks[t].where = "queued") ~>
         (/\ Len(tasks) >= t
          /\ \/ tasks[t].where = "running"
             \/ metadataQueue.shuttingDown /\ tasks[t].runs = 0)

\* A task that was running when shutdown was called has failed and resolved.
C25_Witness ==
  /\ lastStep.kind = "taskFinished"
  /\ lastStep.outcome = "rejected"
  /\ metadataQueue.shuttingDown
  /\ tasks[lastStep.h].where = "resolved"
  /\ \E c \in calls : c.task = lastStep.h


(***************************************************************************)
(* Shutdown: shutdown() runs its body once; the body awaits the session    *)
(* save, the metadata-cache save and the engine's stop(), in that order.   *)
(* The saves and stop() are taken at their interface: each settles "ok"    *)
(* or "failed".                                                            *)
(***************************************************************************)
\* SessionStore.save: each save is chained on writeQueue with then(), so the
\* callback of a save runs only if the save before it fulfilled.
SaveOutcomes(w) == IF w.c.writeQueue = "rejected" THEN {"failed"} ELSE {"ok", "failed"}

save(w, d, session, outcome) ==
  [w |-> [w EXCEPT !.c.writeQueue = IF outcome = "ok" THEN "fulfilled" ELSE "rejected"],
   d |-> IF outcome = "ok" THEN [d EXCEPT !.session = session] ELSE d]

\* MetadataLoadQueue.shutdown() on the controller's queue.
queueShutdown(w) ==
  LET pendingTasks == Range(w.mq.highQueue) \cup Range(w.mq.normalQueue)
  IN [w EXCEPT !.mq = [ShutdownLanes(w.mq) EXCEPT !.shuttingDown = TRUE],
               !.tasks = [t \in 1..Len(w.tasks) |->
                            IF t \in pendingTasks
                            THEN [w.tasks[t] EXCEPT !.where = "resolved"] ELSE w.tasks[t]]]

\* shutdown(): a call that finds shutdownPromise set returns it; the first
\* call runs the body to its first await, inside persistSession.
shutdownAs_NoSharedRun(w) ==
  LET w1 == queueShutdown(w)
  IN [w1 EXCEPT !.c.statusTimer = FALSE,
                !.c.playbackEmitTimer = FALSE,
                !.c.statusEmitTimer = FALSE,
                !.c.sessionTimer = FALSE,
                !.c.shutdownPromise = [state |-> "pending", at |-> "persistSession",
                                       session |-> persistSession(w1)]]

shutdown(w) ==
  IF w.c.shutdownPromise.state # "none" THEN w
  ELSE LET w1 == queueShutdown(w)
       IN [w1 EXCEPT !.c.statusTimer = FALSE,
                     !.c.playbackEmitTimer = FALSE,
                     !.c.statusEmitTimer = FALSE,
                     !.c.sessionTimer = FALSE,
                     !.c.shutdownPromise = [state |-> "pending", at |-> "persistSession",
                                            session |-> persistSession(w1)]]

\* The body after its try around persistSession: persistCache is called.
AfterSessionSave(w, outcome) == [w EXCEPT !.c.shutdownPromise.at = "persistCache"]

\* The body after its try around persistCache: backend.stop() is called if
\* the backend is ready, else the body returns.
AfterCacheSave(w, outcome) ==
  IF w.c.backendReady THEN [w EXCEPT !.c.shutdownPromise.at = "stop"]
  ELSE [w EXCEPT !.c.shutdownPromise.state = "fulfilled", !.c.shutdownPromise.at = "none"]

\* The finally around backend.stop(), and the end of the body.
AfterStop(w, outcome) ==
  [w EXCEPT !.c.backendReady = FALSE,
            !.c.shutdownPromise.state = IF outcome = "ok" THEN "fulfilled" ELSE "rejected",
            !.c.shutdownPromise.at = "none"]

\* The step leaves world w and disk d.
BecomesOnDisk(w, d, step) ==
  /\ playlistManager' = w.pm
  /\ nextId' = w.nextId
  /\ metadataQueue' = w.mq
  /\ tasks' = w.tasks
  /\ controller' = w.c
  /\ invocations' = w.hs
  /\ emitted' = w.out
  /\ lastStep' = step
  /\ disk' = d
  /\ UNCHANGED <<calls, trVars>>

\* shutdown() is called; the application calls it after init() has ended.
CtlShutdown ==
  /\ controller.initialized
  /\ Becomes(shutdown(World), Step("shutdown", Null, "none"))

\* The await the body is suspended at settles.
CtlShutdownSettle ==
  /\ controller.shutdownPromise.state = "pending"
  /\ LET at == controller.shutdownPromise.at
     IN \/ /\ at = "persistSession"
           /\ \E outcome \in SaveOutcomes(World) :
                LET saved == save(World, disk, controller.shutdownPromise.session, outcome)
                IN BecomesOnDisk(AfterSessionSave(saved.w, outcome), saved.d,
                                 Step("shutdown:persistSession", Null, outcome))
        \/ /\ at = "persistCache"
           /\ \E outcome \in {"ok", "failed"} :
                Becomes(AfterCacheSave(World, outcome),
                        Step("shutdown:persistCache", Null, outcome))
        \/ /\ at = "stop"
           /\ \E outcome \in {"ok", "failed"} :
                Becomes(AfterStop(World, outcome), Step("shutdown:stop", Null, outcome))

\* The 2 s interval of init(): the session is saved, a failure is dropped.
CtlSessionTimer ==
  /\ controller.sessionTimer
  /\ \E outcome \in SaveOutcomes(World) :
       LET saved == save(World, disk, persistSession(World), outcome)
       IN BecomesOnDisk(saved.w, saved.d, Step("sessionTimer", Null, outcome))

\* Commands arrive until the application begins to quit.
SdRunning == controller.shutdownPromise.state = "none"

SdAddPaths == SdRunning /\ AddPaths({<<2, 1>>}, MaxIds)

SdPlay == SdRunning /\ PlaybackCommand({"play"})

SdStateEvent ==
  /\ controller.backendReady
  /\ \E payload \in {[keys |-> {"timePosSec"}, paused |-> FALSE, timePosSec |-> 1]} :
       Becomes(handleStateEvent(World, payload), Step("state", Null, "none"))

SdResume == Settle({"ok", "mpv command timed out"})

SdNext ==
  \/ CtlStart
  \/ SdAddPaths
  \/ SdPlay
  \/ SdResume
  \/ CtlFileLoaded
  \/ SdStateEvent
  \/ CtlPlaybackEmitTimer
  \/ CtlSessionTimer
  \/ CtlShutdown
  \/ CtlShutdownSettle

SpecShutdown == CtlInit /\ [][SdNext]_vars

\* The saves and stop() of a shutdown that has begun settle.
SpecShutdownFair == SpecShutdown /\ WF_vars(CtlShutdownSettle)

\* How far the body of shutdown() has come.
C21_Rank(promise) ==
  CASE promise.state = "none" -> 0
    [] promise.at = "persistSession" -> 1
    [] promise.at = "persistCache" -> 2
    [] promise.at = "stop" -> 3
    [] OTHER -> 4

C21_Before == controller.shutdownPromise
C21_After == controller'.shutdownPromise

C21_Step ==
  \* the first call: queue shut down, timers cancelled, the session handed
  \* to the store; a later call changes nothing
  /\ lastStep'.kind = "shutdown" =>
       IF C21_Before.state = "none"
       THEN /\ metadataQueue'.shuttingDown
            /\ metadataQueue'.highQueue = <<>> /\ metadataQueue'.normalQueue = <<>>
            /\ ~controller'.statusTimer /\ ~controller'.playbackEmitTimer
            /\ ~controller'.statusEmitTimer /\ ~controller'.sessionTimer
            /\ C21_Rank(C21_After) = 1
            /\ C21_After.session = persistSession(World)
            /\ disk' = disk
       ELSE /\ controller' = controller /\ metadataQueue' = metadataQueue
            /\ tasks' = tasks /\ disk' = disk
  \* the session save settles, either way: the cache save is next
  /\ lastStep'.kind = "shutdown:persistSession" =>
       /\ C21_Rank(C21_Before) = 1 /\ C21_Rank(C21_After) = 2
       /\ disk'.session = IF lastStep'.outcome = "ok" THEN C21_Before.session ELSE disk.session
  \* the cache save settles, either way: stop() is next if the backend is
  \* ready, else the run is over
  /\ lastStep'.kind = "shutdown:persistCache" =>
       /\ C21_Rank(C21_Before) = 2
       /\ C21_Rank(C21_After) = IF controller.backendReady THEN 3 ELSE 4
       /\ ~controller.backendReady => C21_After.state = "fulfilled"
  /\ lastStep'.kind = "shutdown:stop" =>
       /\ C21_Rank(C21_Before) = 3 /\ C21_Rank(C21_After) = 4
       /\ controller.backendReady /\ ~controller'.backendReady
  \* the run advances only by those steps, one await at a time
  /\ C21_Rank(C21_After) # C21_Rank(C21_Before) =>
       /\ C21_Rank(C21_After) > C21_Rank(C21_Before)
       /\ lastStep'.kind \in {"shutdown", "shutdown:persistSession",
                              "shutdown:persistCache", "shutdown:stop"}

\* C21: shutdown() shuts the metadata queue down and cancels the timers,
\* then saves the session, then the metadata cache, then stops the engine if
\* the backend is ready; a failed session or cache save is followed by the
\* next step all the same, and a shutdown that has begun ends; a call made
\* once shutdownPromise is set starts nothing, so no step is taken twice.
C21_ShutdownOrder ==
  /\ [][C21_Step]_vars
  /\ (controller.shutdownPromise.state = "pending") ~>
       (controller.shutdownPromise.state \in {"fulfilled", "rejected"})

\* shutdown() was called again while the run, past a failed session save,
\* awaited the cache save.
C21_Witness ==
  /\ lastStep.kind = "shutdown"
  /\ controller.shutdownPromise.at = "persistCache"
  /\ controller.writeQueue = "rejected"


(***************************************************************************)
(* C26: the steps of playTrackById, in the session specification, where    *)
(* it runs for a play command (autoplay, no seek) and for restoreSession   *)
(* (no autoplay, a seek to the saved position if that is positive).        *)
(***************************************************************************)
\* The awaits of playTrackById; at each of the first six an engine call is
\* outstanding, or the file-loaded wait.
C26_Pcs ==
  {"playTrackById:setReplayGain", "playTrackById:loadFile",
   "playTrackById:waitForFileLoaded", "playTrackById:seekAbsolute",
   "playTrackById:play", "playTrackById:pause", "playTrackById:loadForTrack"}

C26_PlayOrPausePc(inv) == IF inv.autoplay THEN "playTrackById:play" ELSE "playTrackById:pause"

\* The await that follows `pc` when the awaited call succeeded.
C26_Successor(inv) ==
  CASE inv.pc = "playTrackById:setReplayGain" -> "playTrackById:loadFile"
    [] inv.pc = "playTrackById:loadFile" -> "playTrackById:waitForFileLoaded"
    [] inv.pc = "playTrackById:waitForFileLoaded" ->
         IF inv.seekToSeconds > 0 THEN "playTrackById:seekAbsolute" ELSE C26_PlayOrPausePc(inv)
    [] inv.pc = "playTrackById:seekAbsolute" -> C26_PlayOrPausePc(inv)
    [] inv.pc \in {"playTrackById:play", "playTrackById:pause"} -> "playTrackById:loadForTrack"
    [] OTHER -> "none"

C26_QueueUntouched == metadataQueue' = metadataQueue /\ tasks' = tasks

C26_StepOf(h) ==
  LET inv == invocations[h]
      next == invocations'[h]
  IN \* playTrackById begins: the three ids are set and setReplayGain is sent
     /\ (inv.pc \notin C26_Pcs /\ next.pc \in C26_Pcs) =>
          /\ next.pc = "playTrackById:setReplayGain"
          /\ next.trackId \in ItemIds(playlistManager'.items)
          /\ playlistManager'.currentTrackId = next.trackId
          /\ playlistManager'.selectedTrackId = next.trackId
          /\ controller'.playback.currentTrackId = next.trackId
          /\ lastStep'.kind # "init" => C26_QueueUntouched
     \* it goes from one await to the next in the order of the code
     /\ (inv.pc \in C26_Pcs /\ next.pc \in C26_Pcs /\ next.pc # inv.pc) =>
          /\ next.pc = C26_Successor(inv)
          /\ next.trackId = inv.trackId
          /\ inv.pc = "playTrackById:waitForFileLoaded" => h \notin controller'.fileLoadedWaiters
     \* nothing is enqueued before the lyrics and cover art have loaded
     /\ (inv.pc \in C26_Pcs \ {"playTrackById:loadForTrack"} /\ next.pc # inv.pc) =>
          C26_QueueUntouched
     \* then the track's load is in flight, and not in the normal lane
     /\ (inv.pc = "playTrackById:loadForTrack" /\ next.pc # inv.pc /\ ~metadataQueue.shuttingDown) =>
          /\ lastStep'.kind = "resume:playTrackById:loadForTrack"
          /\ Existing(metadataQueue', inv.trackId) # Null
          /\ Existing(metadataQueue', inv.trackId) \notin Range(metadataQueue'.normalQueue)
          /\ tasks'[Existing(metadataQueue', inv.trackId)].trackId = inv.trackId

\* C26: playTrackById sets the playlist's current track, its selection and
\* playback.currentTrackId to the track before it sends its first engine
\* command, then awaits setReplayGain, loadFile, the file-loaded wait, the
\* seek if a resume position was given, and play or pause by the autoplay
\* flag, in that order; the high-priority metadata load of the track is
\* enqueued only after them.  (The step in which the application ends is
\* no step of playTrackById.)
C26_PlayTrackOrder ==
  [][lastStep'.kind # "shutdown" => \A h \in Slots : C26_StepOf(h)]_vars

\* A restored track has gone through its seek and its pause, and its load
\* has just been enqueued.
C26_Witness ==
  /\ lastStep.kind = "resume:playTrackById:loadForTrack"
  /\ invocations[lastStep.h].seekToSeconds > 0
  /\ ~invocations[lastStep.h].autoplay
  /\ Existing(metadataQueue, invocations[lastStep.h].trackId) # Null
  /\ controller.playback.state = "paused"


(***************************************************************************)
(* Previous: tracks are played and skipped in both directions.             *)
(***************************************************************************)
PrevNext ==
  \/ CtlStart
  \/ CtlAddPaths
  \/ CtlPlayTrack
  \/ CtlPreviousTrack
  \/ CtlNextTrack
  \/ CtlResume
  \/ CtlFileLoaded
  \/ CtlStatusTimer

SpecPrevious == CtlInit /\ [][PrevNext]_vars

\* A command of the given type that finds the given ids to go to ends
\* paused, with a temporary status message among its events.
C27_EndsPaused(type, targets) ==
  (lastStep'.kind = type /\ targets = {Null}) =>
    /\ controller'.playback.state = "paused"
    /\ StatusMessages(emitted') # {}
    /\ controller'.status.temporaryMessage \in StatusMessages(emitted')

\* C27: a previous command for which getPreviousTrackId returns null leaves
\* the playback state paused and sets a temporary status message, as a next
\* command without a next track does.
C27_PreviousPauses ==
  [][/\ C27_EndsPaused("previous", getPreviousTrackId(playlistManager))
     /\ C27_EndsPaused("next", getNextTrackId(playlistManager))]_vars

\* The next command alone.
C27_NextPauses == [][C27_EndsPaused("next", getNextTrackId(playlistManager))]_vars

\* A previous command has found no track to go to while the first item of
\* two was playing.
C27_NoPrevious ==
  /\ lastStep.kind = "previous"
  /\ "No previous track" \in StatusMessages(emitted)
  /\ controller.playback.state = "playing"
  /\ Len(playlistManager.items) = 2
  /\ playlistManager.currentTrackId = playlistManager.items[1].id


(***************************************************************************)
(* C28: the stop command around a seek the engine rejects.                 *)
(***************************************************************************)
\* The events of the given type among the events of a step.
C28_Events(out, type) == {i \in 1..Len(out) : out[i].type = type}

C28_StopStep ==
  \* stop with a current track and a ready backend sends pause
  /\ (lastStep'.kind = "stop" /\ controller.backendReady
        /\ controller.playback.currentTrackId # Null) =>
       /\ invocations'[lastStep'.h].pc = "stop:pause"
       /\ controller' = controller
  \* the seek to 0 is sent once pause has succeeded, and only then
  /\ \A h \in Slots :
       (invocations'[h].pc = "stop:seekAbsolute" /\ invocations[h].pc # "stop:seekAbsolute") =>
         /\ invocations[h].pc = "stop:pause"
         /\ lastStep' = Step("resume:stop:pause", h, "ok")
  \* whatever the seek settles with, the command ends stopped at time 0
  \* and raises no backend error
  /\ lastStep'.kind = "resume:stop:seekAbsolute" =>
       /\ invocations'[lastStep'.h].pc # "stop:seekAbsolute"
       /\ controller'.playback.state = "stopped"
       /\ controller'.playback.currentTimeSec = 0
       /\ controller'.status.backendError = controller.status.backendError
       /\ controller'.status.temporaryMessage = controller.status.temporaryMessage
       /\ C28_Events(emitted', "backend.error") = {}
       /\ C28_Events(emitted', "status.message") = {}
       /\ \E i \in C28_Events(emitted', "playback.snapshot") :
            /\ emitted'[i].payload.state = "stopped"
            /\ emitted'[i].payload.currentTimeSec = 0

\* C28: a stop command with a current track and a ready backend pauses the
\* engine and then seeks to 0; if the engine rejects the seek the command
\* still ends with the playback state stopped and the time 0, and sets no
\* backend error.
C28_StopToleratesSeek == [][C28_StopStep]_vars

\* The seek of a stop command has just been rejected.
C28_Witness ==
  /\ lastStep.kind = "resume:stop:seekAbsolute"
  /\ lastStep.outcome \in BackendErrors
  /\ controller.playback.state = "stopped"
  /\ controller.status.backendError = "none"
  /\ playlistManager.currentTrackId # Null


(***************************************************************************)
(* Emission: the engine's state events arm the 120 ms timers; commands     *)
(* emit at once; shutdown cancels the timers.                              *)
(***************************************************************************)
EmPause == SdRunning /\ PlaybackCommand({"pause"})

EmNext ==
  \/ CtlStart
  \/ SdAddPaths
  \/ SdPlay
  \/ EmPause
  \/ SdResume
  \/ CtlFileLoaded
  \/ CtlStateEvent
  \/ CtlPlaybackEmitTimer
  \/ CtlStatusEmitTimer
  \/ CtlShutdown
  \/ CtlShutdownSettle

SpecEmit == CtlInit /\ [][EmNext]_vars

\* A timer that stays set fires.
SpecEmitFair == SpecEmit /\ WF_vars(CtlPlaybackEmitTimer)

\* The playback snapshots among the events of a step.
C29_Snapshots(out) == {i \in 1..Len(out) : out[i].type = "playback.snapshot"}

C29_Step ==
  \* a state event emits no playback snapshot and leaves the timer set
  /\ lastStep'.kind = "state" =>
       /\ C29_Snapshots(emitted') = {}
       /\ controller'.playbackEmitTimer
  \* the timer is set by a state event only, and cleared only by an
  \* emission or by shutdown
  /\ (~controller.playbackEmitTimer /\ controller'.playbackEmitTimer) => lastStep'.kind = "state"
  /\ (controller.playbackEmitTimer /\ ~controller'.playbackEmitTimer) =>
       C29_Snapshots(emitted') # {} \/ lastStep'.kind = "shutdown"
  \* an emission leaves no timer
  /\ C29_Snapshots(emitted') # {} => ~controller'.playbackEmitTimer
  \* the timer's emission carries the playback state of that moment
  /\ lastStep'.kind = "playbackEmitTimer" =>
       /\ controller.playbackEmitTimer
       /\ Len(emitted') = 1
       /\ emitted'[1].type = "playback.snapshot"
       /\ emitted'[1].payload = controller.playback
       /\ controller'.playback = controller.playback
  \* and so does the last emission of any step
  /\ \A i \in C29_Snapshots(emitted') :
       (\A j \in C29_Snapshots(emitted') : j <= i) => emitted'[i].payload = controller'.playback

SavedSession ==
  [NoSession EXCEPT !.saved = TRUE, !.playlistPaths = <<1, 2>>, !.selectedTrackPath = 1,
                    !.currentTrackPath = 1, !.currentTrackPositionSec = 1]

WaitInit ==
  /\ playlistManager = NewPlaylist
  /\ nextId = 1
  /\ metadataQueue = NewMetadataLoadQueue(ControllerConcurrency)
  /\ tasks = <<>>
  /\ calls = {}
  /\ TrIdle
  /\ controller = NewController
  /\ invocations = [h \in Slots |-> IdleHandler]
  /\ emitted = <<>>
  /\ lastStep = Step("constructor", Null, "none")
  /\ disk = [NewDisk EXCEPT !.session = SavedSession]

WaitAddPaths == AddPaths({<<1>>, <<2, 1>>}, MaxIds)

WaitNext ==
  \/ CtlStart
  \/ WaitAddPaths
  \/ CtlPlayTrack
  \/ CtlResume
  \/ CtlFileLoaded
  \/ CtlFileLoadedTimeout

SpecWait == WaitInit /\ [][WaitNext]_vars

\* The timer of the wait in slot h fires.
WaitTimeout(h) == CtlFileLoadedTimeout /\ lastStep'.h = h

\* The engine settles the seek sent from slot h.
WaitSeekSettled(h) ==
  /\ invocations[h].pc = "playTrackById:seekAbsolute"
  /\ CtlResume
  /\ lastStep'.h = h

\* The 1500 ms timer of waitForFileLoaded fires unless the event comes
\* first, and the engine settles the seek it was sent.
SpecWaitFair ==
  SpecWait /\ \A h \in Slots : WF_vars(WaitTimeout(h)) /\ WF_vars(WaitSeekSettled(h))

C30_Waiting(hs) == {h \in Slots : hs[h].pc = "playTrackById:waitForFileLoaded"}

\* Where playTrackById is once the wait is over: at the seek if a position
\* was given, else at play or pause.
C30_Proceeds(before, after) ==
  /\ after.pc = IF before.seekToSeconds > 0 THEN "playTrackById:seekAbsolute"
                ELSE IF before.autoplay THEN "playTrackById:play" ELSE "playTrackById:pause"
  /\ after.trackId = before.trackId
  /\ after.ctx = before.ctx

C30_Step ==
  \* the acknowledged loadFile registers the waiter
  /\ \A h \in Slots :
       (lastStep' = Step("resume:playTrackById:loadFile", h, "ok")) =>
          /\ h \in C30_Waiting(invocations')
          /\ controller'.fileLoadedWaiters = controller.fileLoadedWaiters \cup {h}
  \* the event releases every waiter and empties the list
  /\ lastStep'.kind = "fileLoaded" =>
       /\ controller'.fileLoadedWaiters = {}
       /\ \A h \in C30_Waiting(invocations) : C30_Proceeds(invocations[h], invocations'[h])
       /\ controller'.status = controller.status
  \* the timeout releases its waiter and takes it off the list
  /\ lastStep'.kind = "waitForFileLoaded:timeout" =>
       /\ lastStep'.h \in C30_Waiting(invocations)
       /\ C30_Proceeds(invocations[lastStep'.h], invocations'[lastStep'.h])
       /\ controller'.fileLoadedWaiters = controller.fileLoadedWaiters \ {lastStep'.h}
       /\ controller'.status = controller.status
  \* a wait ends in no other way
  /\ \A h \in C30_Waiting(invocations) \ C30_Waiting(invocations') :
       lastStep'.kind \in {"fileLoaded", "waitForFileLoaded:timeout"}

C30_PlayOrPauseReached(h) ==
  invocations[h].pc \in {"playTrackById:play", "playTrackById:pause"}

\* C30: after loadFile is acknowledged playTrackById waits for a file-loaded
\* event; the event or else the wait's own timeout lets it go on, to the
\* seek if a position was given and then to play or pause, and neither
\* fails it; the waiters registered are exactly the invocations that wait,
\* so each is released once and none stays registered.
C30_WaitProceeds ==
  /\ [](controller.fileLoadedWaiters = C30_Waiting(invocations))
  /\ [][C30_Step]_vars
  /\ \A h \in Slots :
       (h \in C30_Waiting(invocations)) ~> C30_PlayOrPauseReached(h)

\* The wait of a restored track has timed out, and its seek was then
\* rejected: pause is next.
C30_Witness ==
  /\ lastStep.kind = "resume:playTrackById:seekAbsolute"
  /\ lastStep.outcome \in BackendErrors
  /\ invocations[lastStep.h].pc = "playTrackById:pause"
  /\ controller.fileLoadedWaiters = {}
  /\ ~controller.initialized


(***************************************************************************)
(* MpvIpcBackend.setReplayGain: three settings, each tried under a list of *)
(* property names.  sendCommand is taken at its interface: each            *)
(* set_property it is given resolves ("ok") or rejects with a message.     *)
(* `invocations` holds the one setReplayGain call, `commands` the          *)
(* set_property commands of that call that have settled.                   *)
(***************************************************************************)
\* The arguments of the three setPropertyWithFallback calls.
ReplayGainSettings ==
  <<[propertyNames |-> <<"options/replaygain", "replaygain">>, strict |-> TRUE],
    [propertyNames |-> <<"options/replaygain-preamp", "replaygain-preamp">>, strict |-> TRUE],
    [propertyNames |-> <<"options/replaygain-fallback", "replaygain-fallback",
                         "options/replaygain-missing-preamp", "replaygain-missing-preamp">>,
     strict |-> FALSE]>>

\* What a set_property can settle with: success, two of mpv's error strings,
\* sendCommand's own timeout and its connection check.
SetPropertyOutcomes ==
  {"ok", "error running command", "property unavailable",
   "mpv command timed out: set_property", "mpv IPC socket is not connected."}

\* isOptionCompatibilityError: the lower-cased message includes "error
\* running command", "property unavailable", "unknown property" or "option".
isOptionCompatibilityError(message) ==
  message \in {"error running command", "property unavailable"}

\* The setReplayGain call: the setting and the name it is at, the
\* lastOptionError of the running setPropertyWithFallback, and how the call
\* ended ("pending" until then).
NoReplayGainCall ==
  [setting |-> 1, index |-> 1, lastOptionError |-> "none", result |-> "idle"]

\* setReplayGain up to its first await.
setReplayGain == [NoReplayGainCall EXCEPT !.result = "pending"]

\* setPropertyWithFallback returned: the next setting, or the end.
ReplayGainReturn(call) ==
  IF call.setting = Len(ReplayGainSettings) THEN [call EXCEPT !.result = "ok"]
  ELSE [call EXCEPT !.setting = @ + 1, !.index = 1, !.lastOptionError = "none"]

\* The end of setPropertyWithFallback, past its loop.
AfterLoopAs_AlwaysStrict(call, strict) == [call EXCEPT !.result = call.lastOptionError]

AfterLoop(call, strict) ==
  IF strict /\ call.lastOptionError # "none"
  THEN [call EXCEPT !.result = call.lastOptionError]
  ELSE ReplayGainReturn(call)

\* setPropertyWithFallback from the settling of its sendCommand to its next
\* await, or through its end to the next await of setReplayGain.
setPropertyWithFallback(call, outcome) ==
  LET setting == ReplayGainSettings[call.setting]
  IN IF outcome = "ok" THEN ReplayGainReturn(call)
     ELSE IF ~isOptionCompatibilityError(outcome) THEN [call EXCEPT !.result = outcome]
     ELSE LET caught == [call EXCEPT !.lastOptionError = outcome]
          IN IF call.index < Len(setting.propertyNames)
             THEN [caught EXCEPT !.index = @ + 1]
             ELSE AfterLoop(caught, setting.strict)

RgInit ==
  /\ PlIdle
  /\ MqIdle
  /\ controller = NewController
  /\ emitted = <<>>
  /\ disk = NewDisk
  /\ backend = NewBackend
  /\ commands = <<>>
  /\ invocations = <<NoReplayGainCall>>
  /\ lastStep = [kind |-> "none", h |-> Null, outcome |-> "none"]

RgStepped(kind, outcome) ==
  /\ lastStep' = [kind |-> kind, h |-> Null, outcome |-> outcome]
  /\ UNCHANGED <<plVars, mqVars, backend, controller, emitted, disk>>

\* setReplayGain is called; the call before it, if any, has ended.
RgSetReplayGain ==
  /\ invocations[1].result # "pending"
  /\ invocations' = <<setReplayGain>>
  /\ commands' = <<>>
  /\ RgStepped("setReplayGain", "none")

\* The set_property the call awaits settles.
RgSettled ==
  /\ invocations[1].result = "pending"
  /\ \E outcome \in SetPropertyOutcomes :
       LET call == invocations[1]
           name == ReplayGainSettings[call.setting].propertyNames[call.index]
       IN /\ commands' = Append(commands, [setting |-> call.setting, index |-> call.index,
                                           propertyName |-> name, outcome |-> outcome])
          /\ invocations' = <<setPropertyWithFallback(call, outcome)>>
          /\ RgStepped("settled", outcome)

RgNext ==
  \/ RgSetReplayGain
  \/ RgSettled

SpecReplayGain == RgInit /\ [][RgNext]_vars

\* The settled commands of one setting.
C31_Of(s) == SelectSeq(commands, LAMBDA c : c.setting = s)

C31_Ended == invocations[1].result \notin {"idle", "pending"}

\* One setting's commands: names in order, each but the last one failed
\* with an option-compatibility error.
C31_Chain(s) ==
  LET tried == C31_Of(s)
      names == ReplayGainSettings[s].propertyNames
  IN /\ Len(tried) <= Len(names)
     /\ \A k \in 1..Len(tried) :
          /\ tried[k].propertyName = names[k]
          /\ k < Len(tried) => isOptionCompatibilityError(tried[k].outcome)

\* What the last command of the call means for the call.
C31_Last ==
  commands # <<>> =>
    LET last == commands[Len(commands)]
        setting == ReplayGainSettings[last.setting]
        exhausted == last.index = Len(setting.propertyNames)
        call == invocations[1]
    IN \* any other error ends the call with that error
       /\ (last.outcome # "ok" /\ ~isOptionCompatibilityError(last.outcome)) =>
            call.result = last.outcome
       \* an option error on the last name of a strict setting ends it too
       /\ (isOptionCompatibilityError(last.outcome) /\ exhausted /\ setting.strict) =>
            call.result = last.outcome
       \* on the last name of the fallback preamp it ends the call well
       /\ (isOptionCompatibilityError(last.outcome) /\ exhausted /\ ~setting.strict) =>
            call.result = "ok"
       \* an option error on another name sends the next name
       /\ (isOptionCompatibilityError(last.outcome) /\ ~exhausted) =>
            /\ call.result = "pending"
            /\ call.setting = last.setting /\ call.index = last.index + 1
       \* a success goes on to the next setting, or ends the call well
       /\ last.outcome = "ok" =>
            IF last.setting = Len(ReplayGainSettings) THEN call.result = "ok"
            ELSE call.result = "pending" /\ call.setting = last.setting + 1 /\ call.index = 1
       \* a call that has ended sent nothing after the command that ended it
       /\ \A k \in 1..(Len(commands) - 1) :
            /\ commands[k].setting <= commands[k + 1].setting
            /\ commands[k].outcome = "ok" => commands[k + 1].setting = commands[k].setting + 1

C31_WasSet(s) == \E k \in 1..Len(commands) : commands[k].setting = s /\ commands[k].outcome = "ok"

C31_Chains == C31_Last /\ \A s \in 1..Len(ReplayGainSettings) : C31_Chain(s)

\* C31, as stated: names are tried in order and the first success ends the
\* chain; an option-compatibility error moves on to the next name, any
\* other error ends the call with that error; a strict setting whose names
\* are exhausted rejects with the last option error, the fallback preamp
\* completes; and setReplayGain succeeds whenever the mode and the primary
\* preamp were set.
C31_SucceedsWheneverSet ==
  /\ C31_Chains
  /\ (C31_Ended /\ C31_WasSet(1) /\ C31_WasSet(2)) => invocations[1].result = "ok"

\* C31, amended: the same, but setReplayGain succeeds once the mode and the
\* primary preamp were set only if no fallback-preamp command fails with an
\* error that is not an option-compatibility error; such an error ends the
\* call with that error.
C31_FallbackChain ==
  /\ C31_Chains
  /\ (C31_Ended /\ C31_WasSet(1) /\ C31_WasSet(2)) =>
       IF \E k \in 1..Len(commands) :
            /\ commands[k].setting = 3
            /\ commands[k].outcome # "ok"
            /\ ~isOptionCompatibilityError(commands[k].outcome)
       THEN invocations[1].result = commands[Len(commands)].outcome
       ELSE invocations[1].result = "ok"

\* Every name of the fallback preamp failed with an option error after the
\* mode was set under its second name, and the call has succeeded.
C31_Witness ==
  /\ invocations[1].result = "ok"
  /\ Len(C31_Of(1)) = 2
  /\ Len(C31_Of(3)) = 4
  /\ commands[Len(commands)].outcome = "property unavailable"


(***************************************************************************)
(* moveTracks applied to playlists of up to MaxIds items in any order,     *)
(* with any selection and sort state, either without a current track and   *)
(* shuffle off or with the first item current and shuffle on.              *)
(***************************************************************************)
MvPlaylists ==
  UNION {refreshShuffleOrder([NewPlaylist EXCEPT !.items = its]) : its \in OrdItems}
    \cup
  UNION {refreshShuffleOrder([NewPlaylist EXCEPT !.items = its,
                                                !.currentTrackId = its[1].id,
                                                !.shuffleEnabled = TRUE])
         : its \in {x \in OrdItems : Len(x) > 0}}

MvInit ==
  /\ playlistManager \in MvPlaylists
  /\ nextId = MaxIds + 1
  /\ MqIdle
  /\ TrIdle
  /\ CtlIdle

\* One call of moveTracks; the step records the arguments, the order and the
\* sort state of the playlist the call was made on, and the value it returned.
MvMoveTracks ==
  \E requested \in SUBSET TrackIds, index \in -1..(Len(playlistManager.items) + 1) :
    /\ playlistManager' \in moveTracks(playlistManager, requested, index)
    /\ lastStep' = [kind |-> "moveTracks", h |-> requested, outcome |-> index,
                    returned |-> MoveChanges(playlistManager, requested, index),
                    before |-> IdSeq(playlistManager.items),
                    sorted |-> playlistManager.sortColumn # "none"]
    /\ UNCHANGED <<nextId, controller, invocations, emitted, disk, mqVars, trVars>>

MvSortBy ==
  \E column \in SortColumns :
    /\ playlistManager' \in sortBy(playlistManager, column)
    /\ lastStep' = [kind |-> "sortBy", h |-> {}, outcome |-> 0,
                    returned |-> TRUE, before |-> <<>>, sorted |-> FALSE]
    /\ UNCHANGED <<nextId, controller, invocations, emitted, disk, mqVars, trVars>>

MvSetSelectedTracks ==
  \E requested \in SUBSET TrackIds :
    /\ playlistManager' = setSelectedTracks(playlistManager, requested, Null)
    /\ lastStep' = [kind |-> "setSelectedTracks", h |-> {}, outcome |-> 0,
                    returned |-> TRUE, before |-> <<>>, sorted |-> FALSE]
    /\ UNCHANGED <<nextId, controller, invocations, emitted, disk, mqVars, trVars>>

MvNext ==
  \/ MvMoveTracks
  \/ MvSortBy
  \/ MvSetSelectedTracks

SpecMove == MvInit /\ [][MvNext]_vars

\* The items of a playlist that a call names, and those it does not, each in
\* playlist order.
C32_Moved(its, requested) ==
  LET Named(item) == item.id \in requested IN SelectSeq(its, Named)

C32_Kept(its, requested) ==
  LET Unnamed(item) == item.id \notin requested IN SelectSeq(its, Unnamed)

\* The non-moved items whose original index was below the clamped target.
C32_Below(its, requested, index) ==
  Cardinality({i \in 1..Len(its) :
                 /\ its[i].id \notin requested
                 /\ (i - 1) < Max(0, Min(index, Len(its)))})

\* The order the call is to yield: the kept items in their order, with the
\* moved block, in its order, right after the kept items counted by C32_Below.
C32_Order(its, requested, index) ==
  LET kept == C32_Kept(its, requested)
      k == C32_Below(its, requested, index)
  IN SubSeq(kept, 1, k) \o C32_Moved(its, requested) \o SubSeq(kept, k + 1, Len(kept))

C32_Call ==
  LET old == playlistManager
      new == playlistManager'
      order == C32_Order(old.items, lastStep'.h, lastStep'.outcome)
  IN /\ new.items = order
     /\ Len(new.items) = Len(old.items)
     /\ ItemIds(new.items) = ItemIds(old.items)
     /\ lastStep'.returned <=> (order # old.items)
     /\ lastStep'.returned => new.sortColumn = "none" /\ new.sortDirection = "asc"
     /\ ~lastStep'.returned => new = old

(***************************************************************************)
(* C32: moveTracks(ids, targetIndex) yields a permutation of the same      *)
(* items in which the moved items form one contiguous block in their       *)
(* previous relative order, the non-moved items keep their relative order, *)
(* and the block sits immediately after all non-moved items whose original *)
(* index was below the clamped targetIndex; it resets the sort state when  *)
(* it changes the order, and it returns false and leaves all state (order, *)
(* selection, sort state, and the rest of the playlist) unchanged exactly  *)
(* when the resulting order would equal the current order.                 *)
(***************************************************************************)
C32_MoveTracks == [][lastStep'.kind = "moveTracks" => C32_Call]_vars

\* A call on a sorted playlist with a selection moved the first and the third
\* item, which were apart, to the end.
C32_Witness ==
  /\ lastStep.kind = "moveTracks"
  /\ lastStep.returned
  /\ lastStep.sorted
  /\ Len(playlistManager.selectedTrackIds) > 0
  /\ Len(lastStep.before) = 3
  /\ lastStep.h = {lastStep.before[1], lastStep.before[3]}
  /\ lastStep.outcome = 3
  /\ IdSeq(playlistManager.items) = <<lastStep.before[2], lastStep.before[1], lastStep.before[3]>>


(***************************************************************************)
(* The playlist manager with the mutators of its items, its current track  *)
(* and its shuffle setting.                                                *)
(***************************************************************************)
ShNext ==
  \/ PlAddPaths
  \/ PlReplaceWithPaths
  \/ PlClear
  \/ PlRemoveTracks
  \/ PlMoveTracks
  \/ PlSortBy
  \/ PlSetCurrentTrack
  \/ PlToggleShuffle

SpecShuffle == PlInit /\ [][ShNext]_vars

(***************************************************************************)
(* C33: whenever shuffle is enabled, after any playlist operation (add,    *)
(* replace, remove, move, sort, clear, set current track, toggle shuffle)  *)
(* the shuffle order is a permutation of exactly the ids of the current    *)
(* items, and the current track, if there is one, is its first element;    *)
(* whenever shuffle is disabled the shuffle order is empty and the         *)
(* playback order is the item order.                                       *)
(***************************************************************************)
C33_ShuffleOrder ==
  LET pl == playlistManager
      ids == ItemIds(pl.items)
  IN IF pl.shuffleEnabled
     THEN /\ pl.shuffleOrder \in Perms(ids)
          /\ pl.currentTrackId # Null /\ pl.currentTrackId \in ids
               => pl.shuffleOrder[1] = pl.currentTrackId
     ELSE /\ pl.shuffleOrder = <<>>
          /\ \A r \in getPlaybackOrder(pl) : r.order = IdSeq(pl.items) /\ r.pm = pl

\* Shuffle is on with three items, the last of them current and first in a
\* shuffle order that differs from the item order in its remainder too.
C33_Witness ==
  LET pl == playlistManager
  IN /\ pl.shuffleEnabled
     /\ Len(pl.items) = 3
     /\ pl.currentTrackId = pl.items[3].id
     /\ pl.shuffleOrder = <<pl.items[3].id, pl.items[2].id, pl.items[1].id>>


(***************************************************************************)
(* The playlist manager under its mutators, the repeat and shuffle         *)
(* settings and the next-track step of the controller as the playlist      *)
(* sees it: getNextTrackId, then setCurrentTrack with the id it returned.  *)
(***************************************************************************)
SnNextTrack ==
  \E call \in NextTrackCalls(playlistManager) :
    /\ call.id # Null
    /\ playlistManager' \in setCurrentTrack(call.pm, call.id)
    /\ UNCHANGED <<nextId, mqVars, trVars, ctlVars>>

\* A next-track step that finds no next track leaves the playlist to
\* getNextTrackId.
SnEndOfPlaylist ==
  \E call \in NextTrackCalls(playlistManager) :
    /\ call.id = Null
    /\ playlistManager' = call.pm
    /\ UNCHANGED <<nextId, mqVars, trVars, ctlVars>>

SnNext ==
  \/ ShNext
  \/ PlCycleRepeatMode
  \/ SnNextTrack
  \/ SnEndOfPlaylist

SpecShuffleNav == PlInit /\ [][SnNext]_vars

C34_Case ==
  /\ playlistManager.shuffleEnabled
  /\ playlistManager.repeatMode # "one"
  /\ playlistManager.currentTrackId # Null
  /\ Len(playlistManager.items) >= 2

(***************************************************************************)
(* C34: with shuffle enabled, repeat mode not "one", a current track set   *)
(* and at least two items, getNextTrackId returns an id of the playlist    *)
(* that is not the current track and never null, and getPreviousTrackId    *)
(* returns null under repeat "off"; so a next-track step taken in such a   *)
(* state never finds the end of the playlist.                              *)
(***************************************************************************)
C34_ShuffleNeverEnds ==
  C34_Case =>
    /\ \A call \in NextTrackCalls(playlistManager) :
         /\ call.id # Null
         /\ call.id # playlistManager.currentTrackId
         /\ call.id \in ItemIds(playlistManager.items)
    /\ playlistManager.repeatMode = "off" =>
         \A call \in PreviousTrackCalls(playlistManager) : call.id = Null

\* Shuffle with repeat "off" on three items, the current one last in item
\* order and the third of the tracks made current by next-track steps.
C34_Witness ==
  /\ C34_Case
  /\ playlistManager.repeatMode = "off"
  /\ Len(playlistManager.items) = 3
  /\ playlistManager.currentTrackId = playlistManager.items[3].id
  /\ playlistManager.shuffleOrder[2] = playlistManager.items[1].id


(***************************************************************************)
(* The session timer's saves, each with the answer the file system would   *)
(* give to a write and rename made at that moment.                         *)
(***************************************************************************)
FileSystemAnswers == {"ok", "failed"}

\* How a save() settles: its callback is chained with then() on writeQueue,
\* so it runs, and writes, only if every earlier save was fulfilled.
SaveOutcome(w, answer) == IF w.c.writeQueue = "rejected" THEN "failed" ELSE answer

StSessionTimer ==
  /\ controller.sessionTimer
  /\ \E answer \in FileSystemAnswers :
       LET outcome == SaveOutcome(World, answer)
           saved == save(World, disk, persistSession(World), outcome)
       IN BecomesOnDisk(saved.w, saved.d, Step("sessionTimer", answer, outcome))

StNext ==
  \/ CtlStart
  \/ SdAddPaths
  \/ SdPlay
  \/ SdResume
  \/ CtlFileLoaded
  \/ SdStateEvent
  \/ StSessionTimer

SpecStore == CtlInit /\ [][StNext]_vars

(***************************************************************************)
(* C35: in the session store, a save call that fails (write or rename      *)
(* error) does not affect later saves: every save call writes and succeeds *)
(* if the file system allows it, whatever happened to the saves before it. *)
(***************************************************************************)
C35_LaterSavesUnaffected ==
  [][lastStep'.kind = "sessionTimer" /\ lastStep'.h = "ok"
       => lastStep'.outcome = "ok" /\ disk'.session = persistSession(World)]_vars

\* Until a save has failed, every save the file system allows succeeds and
\* leaves the session it was given on disk.
C35_UntilFirstFailure ==
  [][lastStep'.kind = "sessionTimer" /\ lastStep'.h = "ok" /\ controller.writeQueue = "fulfilled"
       => lastStep'.outcome = "ok" /\ disk'.session = persistSession(World)]_vars

\* A save that the file system would have allowed failed, and the session on
\* disk is not the one it was given.
C35_Poisoned ==
  /\ lastStep.kind = "sessionTimer"
  /\ lastStep.h = "ok"
  /\ lastStep.outcome = "failed"
  /\ disk.session # persistSession(World)


(***************************************************************************)
(* C36: in every controller state in which no command handler is           *)
(* suspended, playback state is playing or paused only if the playback     *)
(* currentTrackId is non-null: a null currentTrackId implies state         *)
(* stopped, for any sequence of commands and engine events, next on an     *)
(* empty playlist included.                                                *)
(***************************************************************************)
C36_StoppedWithoutTrack ==
  (\A h \in Slots : invocations[h].pc = "idle")
    => (controller.playback.currentTrackId = Null => controller.playback.state = "stopped")

\* A next command on an empty playlist has returned: no current track, and
\* playback paused.
C36_PausedWithoutTrack ==
  /\ \A h \in Slots : invocations[h].pc = "idle"
  /\ lastStep.kind = "next"
  /\ Len(playlistManager.items) = 0
  /\ controller.playback.currentTrackId = Null
  /\ controller.playback.state = "paused"


(***************************************************************************)
(* Interleaved playTrack operations: the controller with MaxRacers         *)
(* invocations at a time, two tracks in the playlist and an engine that    *)
(* accepts every call, answering them in any order.  Of the engine's       *)
(* commands the last loadfile written to the socket is kept: the engine    *)
(* runs the commands in the order it receives them.                        *)
(***************************************************************************)
MaxRacers == 2

RaceSlots == 1..MaxRacers

RcIdle == \A h \in RaceSlots : invocations[h].pc = "idle"

RcInit ==
  /\ playlistManager = NewPlaylist
  /\ nextId = 1
  /\ metadataQueue = NewMetadataLoadQueue(ControllerConcurrency)
  /\ tasks = <<>>
  /\ calls = {}
  /\ TrIdle
  /\ controller = NewController
  /\ invocations = [h \in RaceSlots |-> IdleHandler]
  /\ emitted = <<>>
  /\ lastStep = Step("constructor", Null, "none")
  /\ disk = NewDisk

\* backend.loadFile(track.path) is called by the invocations that reach the
\* await of loadFile in this step.
LoadFileCalls(w) ==
  {h \in RaceSlots : /\ w.hs[h].pc = "playTrackById:loadFile"
                     /\ invocations[h].pc # "playTrackById:loadFile"}

RcBecomes(w, step) ==
  /\ playlistManager' = w.pm
  /\ nextId' = w.nextId
  /\ metadataQueue' = w.mq
  /\ tasks' = w.tasks
  /\ controller' = w.c
  /\ invocations' = w.hs
  /\ emitted' = w.out
  /\ lastStep' = step
  /\ commands' = IF LoadFileCalls(w) = {} THEN commands
                 ELSE <<[command |-> "loadfile",
                         path |-> w.hs[CHOOSE h \in LoadFileCalls(w) : TRUE].path]>>
  /\ UNCHANGED <<calls, backend, disk>>

RcStart ==
  /\ ~controller.initialized
  /\ RcIdle
  /\ \E w \in restoreSession([World EXCEPT !.c.backendReady = TRUE], 1, disk) :
       RcBecomes(w, Step("init", Null, "none"))

RcAddPaths ==
  /\ controller.initialized
  /\ nextId = 1
  /\ \E w \in addPathsToPlaylist(World, <<1, 2>>, NoIndex) :
       RcBecomes(w, Step("addPaths", Null, "none"))

RcPlayTrack ==
  /\ controller.initialized
  /\ \E trackId \in 1..2, h \in RaceSlots :
       /\ FreeSlot(h)
       /\ \E w \in handlePlaybackCommand(World, h, [type |-> "playTrack", trackId |-> trackId]) :
            RcBecomes(w, Step("playTrack", h, "none"))

\* The engine's end-of-file event with reason "eof": auto-advance.
RcEndOfFile ==
  /\ controller.backendReady
  /\ controller.playback.state = "playing"
  /\ \E h \in RaceSlots :
       /\ FreeSlot(h)
       /\ \E w \in playNextTrack([World EXCEPT !.hs[h].ctx = "event"], h, TRUE, "event") :
            RcBecomes(w, Step("endOfFile", h, "none"))

\* The call some invocation awaits is fulfilled.
RcResume ==
  \E h \in RaceSlots :
    /\ invocations[h].pc \in BackendPcs \cup {"playTrackById:loadForTrack"}
    /\ RcBecomes(Resume(World, h, "ok"), Step("resume:" \o invocations[h].pc, h, "ok"))

RcFileLoaded ==
  /\ controller.backendReady
  /\ controller.fileLoadedWaiters # {}
  /\ RcBecomes(resolveFileLoadedWaiters(World), Step("fileLoaded", Null, "none"))

RcNext ==
  \/ RcStart
  \/ RcAddPaths
  \/ RcPlayTrack
  \/ RcEndOfFile
  \/ RcResume
  \/ RcFileLoaded

SpecRace == RcInit /\ [][RcNext]_vars

\* The path of the track playback currentTrackId names.
RcCurrentPath == getItemById(playlistManager, controller.playback.currentTrackId).path

\* Every playTrack operation begun has completed, and at least one was begun.
RcAllCompleted ==
  /\ RcIdle
  /\ controller.playback.currentTrackId \in ItemIds(playlistManager.items)

(***************************************************************************)
(* C37: when playTrack operations for different tracks interleave at their *)
(* suspension points, then once all of them have completed the lyrics      *)
(* snapshot and the cover-art path belong to the track identified by       *)
(* playback currentTrackId.                                                *)
(***************************************************************************)
C37_LyricsOfCurrent ==
  RcAllCompleted =>
    /\ controller.lyrics.path = loadForTrack(RcCurrentPath).path
    /\ controller.currentCoverArtPath = resolveForTrack(RcCurrentPath)

\* All operations have completed; the current track is the second one while
\* the lyrics and the cover art are those of the first.
C37_LyricsOfOther ==
  /\ RcAllCompleted
  /\ controller.playback.currentTrackId = 2
  /\ controller.lyrics.path = 1
  /\ controller.currentCoverArtPath = 1

(***************************************************************************)
(* C38: when playTrack operations for different tracks interleave and the  *)
(* engine's responses to their commands complete in any order, then once   *)
(* all of them have completed the file most recently loaded into the       *)
(* engine is the path of the track identified by playback currentTrackId.  *)
(***************************************************************************)
C38_LoadedIsCurrent ==
  RcAllCompleted => commands # <<>> /\ commands[1].path = RcCurrentPath

\* All operations have completed; the current track is the second one while
\* the engine was last told to load the file of the first.
C38_LoadedOther ==
  /\ RcAllCompleted
  /\ controller.playback.currentTrackId = 2
  /\ commands = <<[command |-> "loadfile", path |-> 1]>>


(***************************************************************************)
(* The playlist manager with the operations that can change the order of   *)
(* the items or the values they are ordered by.                            *)
(***************************************************************************)
SoNext ==
  \/ PlAddPaths
  \/ PlReplaceWithPaths
  \/ PlClear
  \/ PlRemoveTracks
  \/ PlMoveTracks
  \/ PlSortBy
  \/ PlUpdateMetadata

SpecSorted == PlInit /\ [][SoNext]_vars

\* The items are in the order of the column's comparator and the direction.
C39_InOrder(pl) ==
  LET direction == IF pl.sortDirection = "asc" THEN 1 ELSE -1
  IN \A i, j \in 1..Len(pl.items) :
       i < j => CompareItems(pl.sortColumn, pl.items[i], pl.items[j]) * direction <= 0

(***************************************************************************)
(* C39: whenever the playlist's sortColumn is non-null, the items are      *)
(* ordered according to that column's comparator and the current sort      *)
(* direction: every operation that can break the order (insertion,         *)
(* removal, move, a metadata update applied to an item) either keeps the   *)
(* order or resets the sort state to none.                                 *)
(***************************************************************************)
C39_SortedWhileSortState ==
  playlistManager.sortColumn # "none" => C39_InOrder(playlistManager)

\* The playlist claims to be sorted by title, ascending, and its first title
\* is greater than its second.
C39_OutOfOrder ==
  /\ playlistManager.sortColumn = "title"
  /\ playlistManager.sortDirection = "asc"
  /\ Len(playlistManager.items) >= 2
  /\ playlistManager.items[1].metadata.title > playlistManager.items[2].metadata.title


(***************************************************************************)
(* The stop command and the engine's pause flag.  Of the engine the pause  *)
(* flag is kept, with whether its property-change event is yet to be       *)
(* delivered (the engine reports the flag only when it changes, and merges *)
(* undelivered changes into one event with the latest value); sinceStop    *)
(* says that a stop command has completed and no command was handled since.*)
(***************************************************************************)
NewEngine == [paused |-> FALSE, pending |-> FALSE, sinceStop |-> FALSE]

EnginePause == IF commands = <<>> THEN NewEngine ELSE commands[1]

\* The engine after the call an invocation awaited at pc settled.
AfterCall(engine, pc, outcome) ==
  IF outcome # "ok" THEN engine
  ELSE IF pc \in {"stop:pause", "playTrackById:pause", "pause:pause"}
  THEN [engine EXCEPT !.paused = TRUE, !.pending = engine.pending \/ ~engine.paused]
  ELSE IF pc \in {"playTrackById:play", "play:play"}
  THEN [engine EXCEPT !.paused = FALSE, !.pending = engine.pending \/ engine.paused]
  ELSE engine

AsBecomes(w, step, engine) ==
  /\ playlistManager' = w.pm
  /\ nextId' = w.nextId
  /\ metadataQueue' = w.mq
  /\ tasks' = w.tasks
  /\ controller' = w.c
  /\ invocations' = w.hs
  /\ emitted' = w.out
  /\ lastStep' = step
  /\ commands' = <<engine>>
  /\ UNCHANGED <<calls, backend, disk>>

AsAddPaths ==
  /\ controller.initialized
  /\ \E files \in {<<1>>, <<2, 1>>} :
       /\ nextId + Len(files) - 1 <= MaxIds
       /\ \E w \in addPathsToPlaylist(World, files, NoIndex) :
            AsBecomes(w, Step("addPaths", Null, "none"), [EnginePause EXCEPT !.sinceStop = FALSE])

\* A playback command is handled up to its first await; a stop command with
\* nothing to pause completes at once.
AsCommand(types) ==
  /\ controller.initialized
  /\ \E command \in PlaybackCommands, h \in Slots :
       /\ command.type \in types
       /\ FreeSlot(h)
       /\ \E w \in handlePlaybackCommand(World, h, command) :
            AsBecomes(w, Step(command.type, h, "none"),
                      [EnginePause EXCEPT !.sinceStop = command.type = "stop" /\ w.hs[h].pc = "idle"])

AsPlayTrack == AsCommand({"playTrack"})
AsStop == AsCommand({"stop"})

\* The call the invocation awaits settles; the stop command completes when
\* its seekAbsolute has settled.
AsResume ==
  \E h \in Slots, outcome \in {"ok", "error running command"} :
    LET pc == invocations[h].pc
    IN /\ pc \in BackendPcs \cup {"playTrackById:loadForTrack"}
       /\ pc = "playTrackById:loadForTrack" => outcome = "ok"
       /\ AsBecomes(Resume(World, h, outcome), Step("resume:" \o pc, h, outcome),
                    [AfterCall(EnginePause, pc, outcome)
                       EXCEPT !.sinceStop = IF pc = "stop:seekAbsolute" THEN TRUE ELSE @])

\* The engine's property-change event for its pause flag is delivered.
AsPauseEvent ==
  /\ controller.backendReady
  /\ EnginePause.pending
  /\ AsBecomes(handleStateEvent(World, [keys |-> {"paused"}, paused |-> EnginePause.paused,
                                        timePosSec |-> 0]),
               Step("state", Null, "none"), [EnginePause EXCEPT !.pending = FALSE])

AsNext ==
  \/ CtlStart
  \/ AsAddPaths
  \/ AsPlayTrack
  \/ AsStop
  \/ AsResume
  \/ CtlFileLoaded
  \/ SdStateEvent
  \/ AsPauseEvent

SpecAfterStop == CtlInit /\ [][AsNext]_vars

(***************************************************************************)
(* C40: after a stop command has completed, playback state remains stopped *)
(* until the next playback or playlist command is handled, whatever engine *)
(* property-change events arrive in between, the pause-flag change caused  *)
(* by the stop itself included.                                            *)
(***************************************************************************)
C40_StaysStopped == EnginePause.sinceStop => controller.playback.state = "stopped"

\* The pause-flag event of a completed stop has been delivered and no
\* command was handled since: playback is paused.
C40_PausedAfterStop ==
  /\ EnginePause.sinceStop
  /\ lastStep.kind = "state"
  /\ EnginePause.paused
  /\ controller.playback.state = "paused"

=============================================================================
